---- MODULE Spec2Model ----
(***************************************************************************)
(* A model of the weatherust fleet toolkit (updatectl / dockermon /        *)
(* updatemon / common): the webhook control plane, the cleanup profile     *)
(* orchestrator, the cleanup analyzer, the remote executor and the server  *)
(* spec parser.  Each subsystem has its own specification over the shared  *)
(* variables; the variables of the other subsystems stay at their initial  *)
(* values.                                                                 *)
(***************************************************************************)
EXTENDS Integers, Sequences, FiniteSets, TLC

VARIABLES
    \* ---- webhook server (updatectl/src/webhook.rs) ----
    secret,     \* WebhookState.secret
    resp,       \* the last HTTP exchange: request, status, tasks it spawned
    tasks,      \* the background tasks spawned by handlers, in spawn order
    handled,    \* number of requests handled so far
    accepted,   \* the handlers that have spawned their task and not yet returned
    \* ---- cleanup profile orchestrator (cleanup/profiles.rs, remote_cleanup.rs) ----
    env,        \* the process environment: the two threshold variables
    env0,       \* history: the environment before any orchestrator call
    execs,      \* the orchestrator calls in progress, one per task slot
    calls,      \* number of orchestrator calls made so far
    overlapped, \* history: some call started while another was in progress
    \* ---- cleanup analyzer (cleanup/mod.rs, remote_cleanup.rs) ----
    report,     \* the outcome of the analysis: nothing yet, Err, or Ok(CleanupReport)
    \* ---- command executor (common/src/executor.rs) ----
    xcall,      \* the last executor call: what the process did and the Result
    \* ---- server spec parser (common/src/lib.rs) ----
    parsed, \* the last Server::parse call: input and Result
    \* ---- server registry (updatectl/src/main.rs) ----
    registry, \* the outcome of build_server_registry and what it was built from
    \* ---- update check (updatectl/src/executor.rs, checkers) ----
    chk, \* a check_updates call: foreground command, refresh task, result
    \* ---- updater (updatectl/src/updater.rs) ----
    upd, \* an update operation: what it was asked, the commands it ran, its result
    \* ---- fleet run ----
    fleet, \* the fleet run: its inputs, targets, task results, reports
    \* ---- notification buttons ----
    notice, \* a ntfy message of a run: sent or not, its title, its actions
    \* ---- image update check ----
    imgchk, \* the update check of one image: what was read, the result
    \* ---- retry ----
    retry, \* a retried operation: the outcomes of its attempts, the result
    \* ---- cleanup result ----
    cleanup, \* a profile cleanup run: the outcome of each prune step and the CleanupResult
    \* ---- remote analysis ----
    scan, \* one remote analysis: the CLI output lines and what the analysis made of them
    \* ---- health sampler ----
    sample, \* one stats sample: the frame and the CPU% and memory% made of it
    \* ---- DNF output parser ----
    dnf, \* one parse of DNF check output: the text and the names
    \* ---- per-server ntfy fan-out ----
    fanout \* one detailed-mode updatemon run: the tasks, the reports collected, the ntfy messages

whVars == <<secret, resp, tasks, handled, accepted>>
prVars == <<env, env0, execs, calls, overlapped>>
anVars == <<report>>
exVars == <<xcall>>
paVars == <<parsed>>
rgVars == <<registry>>
ckVars == <<chk>>
upVars == <<upd>>
flVars == <<fleet>>
ntVars == <<notice>>
icVars == <<imgchk>>
rtVars == <<retry>>
clVars == <<cleanup>>
scVars == <<scan>>
smVars == <<sample>>
dnVars == <<dnf>>
foVars == <<fanout>>

vars == <<secret, resp, tasks, handled, accepted, env, env0, execs, calls, overlapped,
          report, xcall, parsed,
          registry,
          chk,
          upd,
          fleet,
          notice,
          imgchk,
          retry,
          cleanup,
          scan,
          sample,
          dnf,
          fanout>>

\* what each subsystem leaves alone
whOther == <<prVars, anVars, exVars, paVars, rgVars, ckVars, upVars, flVars, ntVars, icVars, rtVars, clVars, scVars, smVars, dnVars, foVars>>
prOther == <<whVars, anVars, exVars, paVars, rgVars, ckVars, upVars, flVars, ntVars, icVars, rtVars, clVars, scVars, smVars, dnVars, foVars>>
anOther == <<whVars, prVars, exVars, paVars, rgVars, ckVars, upVars, flVars, ntVars, icVars, rtVars, clVars, scVars, smVars, dnVars, foVars>>
exOther == <<whVars, prVars, anVars, paVars, rgVars, ckVars, upVars, flVars, ntVars, icVars, rtVars, clVars, scVars, smVars, dnVars, foVars>>
paOther == <<whVars, prVars, anVars, exVars, rgVars, ckVars, upVars, flVars, ntVars, icVars, rtVars, clVars, scVars, smVars, dnVars, foVars>>
rgOther == <<whVars, prVars, anVars, exVars, paVars, ckVars, upVars, flVars, ntVars, icVars, rtVars, clVars, scVars, smVars, dnVars, foVars>>
ckOther == <<whVars, prVars, anVars, exVars, paVars, rgVars, upVars, flVars, ntVars, icVars, rtVars, clVars, scVars, smVars, dnVars, foVars>>
upOther == <<whVars, prVars, anVars, exVars, paVars, rgVars, ckVars, flVars, ntVars, icVars, rtVars, clVars, scVars, smVars, dnVars, foVars>>
flOther == <<whVars, prVars, anVars, exVars, paVars, rgVars, ckVars, upVars, ntVars, icVars, rtVars, clVars, scVars, smVars, dnVars, foVars>>
ntOther == <<whVars, prVars, anVars, exVars, paVars, rgVars, ckVars, upVars, flVars, icVars, rtVars, clVars, scVars, smVars, dnVars, foVars>>
icOther == <<whVars, prVars, anVars, exVars, paVars, rgVars, ckVars, upVars, flVars, ntVars, rtVars, clVars, scVars, smVars, dnVars, foVars>>
rtOther == <<whVars, prVars, anVars, exVars, paVars, rgVars, ckVars, upVars, flVars, ntVars, icVars, clVars, scVars, smVars, dnVars, foVars>>
clOther == <<whVars, prVars, anVars, exVars, paVars, rgVars, ckVars, upVars, flVars, ntVars, icVars, rtVars, scVars, smVars, dnVars, foVars>>
scOther == <<whVars, prVars, anVars, exVars, paVars, rgVars, ckVars, upVars, flVars, ntVars, icVars, rtVars, clVars, smVars, dnVars, foVars>>
smOther == <<whVars, prVars, anVars, exVars, paVars, rgVars, ckVars, upVars, flVars, ntVars, icVars, rtVars, clVars, scVars, dnVars, foVars>>
dnOther == <<whVars, prVars, anVars, exVars, paVars, rgVars, ckVars, upVars, flVars, ntVars, icVars, rtVars, clVars, scVars, smVars, foVars>>
foOther == <<whVars, prVars, anVars, exVars, paVars, rgVars, ckVars, upVars, flVars, ntVars, icVars, rtVars, clVars, scVars, smVars, dnVars>>

(***************************************************************************)
(* Option<T>: None is the empty set, Some(x) the singleton {x}.            *)
(***************************************************************************)
None == {}
Some(x) == {x}
IsSome(o) == o # {}
Unwrap(o) == CHOOSE x \in o : TRUE

(***************************************************************************)
(* Bounded strings: sequences of characters of length <= n.                *)
(***************************************************************************)
StrUpTo(alphabet, n) == UNION {[1..k -> alphabet] : k \in 0..n}

(***************************************************************************)
(* Strings are sequences of one-character strings; a byte that is not      *)
(* valid UTF-8 is the token "0xFF", the replacement character "U+FFFD".    *)
(***************************************************************************)
RECURSIVE Flatten(_)
Flatten(ss) == IF ss = <<>> THEN <<>> ELSE Head(ss) \o Flatten(Tail(ss))

\* the strings made of at most n of the given pieces
Concats(pieces, n) == {Flatten(ps) : ps \in StrUpTo(pieces, n)}

\* str::contains
Contains(hay, needle) ==
    \E i \in 0..(Len(hay) - Len(needle)) : SubSeq(hay, i + 1, i + Len(needle)) = needle

\* String::from_utf8_lossy: invalid bytes become U+FFFD
from_utf8_lossy(bytes) ==
    [i \in 1..Len(bytes) |-> IF bytes[i] = "0xFF" THEN "U+FFFD" ELSE bytes[i]]

(***************************************************************************)
(*                         WEBHOOK CONTROL PLANE                           *)
(***************************************************************************)
MaxTokenLen == 1
MaxRequests == 1

TokenChars == {"a", "b"}
Tokens == StrUpTo(TokenChars, MaxTokenLen)
\* UPDATECTL_WEBHOOK_SECRET as configured at start (main.rs: any set value).
ConfiguredSecrets == {<<"a">>}

\* WebhookState.servers: the names in the registry snapshot.
RegisteredServers == {"web"}
\* server names a request may carry
RequestServers == RegisteredServers \cup {"ghost"}
RequestImages == {"nginx:latest"}

Routes == {"update/os", "update/docker/all", "update/docker/image",
           "cleanup/safe", "cleanup/images/prune-unused"}

\* A request: the route and the raw query parameters, each present or absent.
Requests(route) ==
    [route : {route},
     token : {None} \cup {Some(t) : t \in Tokens},
     server : {None} \cup {Some(s) : s \in RequestServers},
     image : IF route = "update/docker/image"
             THEN {None} \cup {Some(i) : i \in RequestImages}
             ELSE {None}]

NoRequest == [route |-> "none", token |-> None, server |-> None, image |-> None]
NoResponse == [req |-> NoRequest, status |-> 0, spawned |-> 0, task |-> 0, taskpc |-> "none"]

\* Query<WebhookQuery> / Query<CleanupQuery>: `server` and `token` are
\* plain String fields, so a query string without either fails to
\* deserialize and the extractor rejects the request before the handler body.
QueryRejected(req) == req.token = None \/ req.server = None

\* `params.token != state.secret`
TokenMismatch(req, sec) == Unwrap(req.token) # sec

\* `state.servers.get(&params.server)`
ServerLookup(req) ==
    IF Unwrap(req.server) \in RegisteredServers THEN Some(Unwrap(req.server)) ELSE None

NewTask(route, server) ==
    [route |-> route, server |-> server, pc |-> "running", outcome |-> "pending",
     title |-> <<>>, message |-> <<>>, gotify |-> "not_called", ntfy |-> "not_called"]

\* Mutant: the handler spawns nothing.
SpawnNothing(ts, route, server) == ts

\* tokio::spawn(async move { ... }): the task is created and the handler goes on.
Spawn(ts, route, server) == Append(ts, NewTask(route, server))

\* `return (StatusCode::.., ..)` of a request the handler rejects: nothing was
\* spawned.
Respond(req, status) ==
    /\ resp' = [req |-> req, status |-> status, spawned |-> 0, task |-> 0,
                taskpc |-> "none"]
    /\ handled' = handled + 1
    /\ UNCHANGED <<secret, tasks, accepted>>
    /\ UNCHANGED whOther

\* `tokio::spawn(async move { .. })` of an accepted request: the task exists
\* from here on and runs on the runtime's workers while the handler goes on
\* to its return.
Accept(req, ts) ==
    /\ tasks' = ts
    /\ accepted' = accepted \cup
            {[req |-> req, spawned |-> Len(ts) - Len(tasks),
              task |-> IF Len(ts) > Len(tasks) THEN Len(ts) ELSE 0]}
    /\ handled' = handled + 1
    /\ UNCHANGED <<secret, resp>>
    /\ UNCHANGED whOther

\* `(StatusCode::ACCEPTED, format!("... started for {}", params.server))`:
\* the handler returns; the task it spawned may have moved in between.
HandlerReturns ==
    /\ \E h \in accepted :
        /\ resp' = [req |-> h.req, status |-> 202, spawned |-> h.spawned,
                    task |-> h.task,
                    \* where the spawned task stands when the response is returned
                    taskpc |-> IF h.task > 0 THEN tasks[h.task].pc ELSE "none"]
        /\ accepted' = accepted \ {h}
    /\ UNCHANGED <<secret, tasks, handled>>
    /\ UNCHANGED whOther

handle_os_update ==
    /\ handled < MaxRequests
    /\ \E req \in Requests("update/os") :
        IF QueryRejected(req) THEN Respond(req, 400)
        ELSE IF TokenMismatch(req, secret) THEN Respond(req, 401)
        ELSE IF ServerLookup(req) = None THEN Respond(req, 400)
        ELSE Accept(req, Spawn(tasks, req.route, Unwrap(ServerLookup(req))))

handle_docker_all_update ==
    /\ handled < MaxRequests
    /\ \E req \in Requests("update/docker/all") :
        IF QueryRejected(req) THEN Respond(req, 400)
        ELSE IF TokenMismatch(req, secret) THEN Respond(req, 401)
        ELSE IF ServerLookup(req) = None THEN Respond(req, 400)
        ELSE Accept(req, Spawn(tasks, req.route, Unwrap(ServerLookup(req))))

handle_docker_image_update ==
    /\ handled < MaxRequests
    /\ \E req \in Requests("update/docker/image") :
        IF QueryRejected(req) THEN Respond(req, 400)
        ELSE IF TokenMismatch(req, secret) THEN Respond(req, 401)
        ELSE IF req.image = None THEN Respond(req, 400)
        ELSE IF ServerLookup(req) = None THEN Respond(req, 400)
        ELSE Accept(req, Spawn(tasks, req.route, Unwrap(ServerLookup(req))))

handle_cleanup_safe ==
    /\ handled < MaxRequests
    /\ \E req \in Requests("cleanup/safe") :
        IF QueryRejected(req) THEN Respond(req, 400)
        ELSE IF TokenMismatch(req, secret) THEN Respond(req, 401)
        ELSE IF ServerLookup(req) = None THEN Respond(req, 400)
        ELSE Accept(req, Spawn(tasks, req.route, Unwrap(ServerLookup(req))))

handle_cleanup_prune_unused ==
    /\ handled < MaxRequests
    /\ \E req \in Requests("cleanup/images/prune-unused") :
        IF QueryRejected(req) THEN Respond(req, 400)
        ELSE IF TokenMismatch(req, secret) THEN Respond(req, 401)
        ELSE IF ServerLookup(req) = None THEN Respond(req, 400)
        ELSE Accept(req, Spawn(tasks, req.route, Unwrap(ServerLookup(req))))

\* The title texts of the five handlers, for Ok and for Err.
TitleText(route, ok) ==
    CASE route = "update/os" ->
            IF ok THEN "OS update complete" ELSE "OS update failed"
      [] route = "update/docker/all" ->
            IF ok THEN "Docker update complete" ELSE "Docker update failed"
      [] route = "update/docker/image" ->
            IF ok THEN "Docker image update complete" ELSE "Docker image update failed"
      [] route = "cleanup/safe" ->
            IF ok THEN "Docker Cleanup: Complete" ELSE "Docker Cleanup: Failed"
      [] route = "cleanup/images/prune-unused" ->
            IF ok THEN "Docker Cleanup: Unused images pruned"
                  ELSE "Docker Cleanup: Unused image prune failed"

\* `let (title, message) = match execute_...(...).await { Ok(msg) => .., Err(e) => .. }`
BuildNotification(t, ok) ==
    [t EXCEPT !.outcome = IF ok THEN "ok" ELSE "err",
              !.title = <<t.server, TitleText(t.route, ok)>>,
              !.message = IF ok THEN <<"check", "msg">> ELSE <<"cross", "Error", "e">>,
              !.pc = "gotify"]

\* Mutant: the Gotify error is propagated with `?`, ending the task.
AfterGotifyPropagates(res) == IF res = "err" THEN "done" ELSE "ntfy"

\* `if let Err(e) = send_gotify_updatectl(..).await { log::warn!(..) }`:
\* the error is logged and the task goes on to the ntfy send.
AfterGotify(res) == "ntfy"

\* `if let Err(e) = send_ntfy_updatectl(..).await { log::warn!(..) }`
AfterNtfy(res) == "done"

SendResults == {"ok", "err"}

\* The awaited operation of a background task returns Ok or Err.
TaskOperationReturns(i) ==
    /\ tasks[i].pc = "running"
    /\ \E ok \in BOOLEAN :
        tasks' = [tasks EXCEPT ![i] = BuildNotification(tasks[i], ok)]
    /\ UNCHANGED <<secret, resp, handled, accepted>>
    /\ UNCHANGED whOther

TaskSendGotify(i) ==
    /\ tasks[i].pc = "gotify"
    /\ \E res \in SendResults :
        tasks' = [tasks EXCEPT ![i].gotify = res, ![i].pc = AfterGotify(res)]
    /\ UNCHANGED <<secret, resp, handled, accepted>>
    /\ UNCHANGED whOther

TaskSendNtfy(i) ==
    /\ tasks[i].pc = "ntfy"
    /\ \E res \in SendResults :
        tasks' = [tasks EXCEPT ![i].ntfy = res, ![i].pc = AfterNtfy(res)]
    /\ UNCHANGED <<secret, resp, handled, accepted>>
    /\ UNCHANGED whOther


(***************************************************************************)
(*                     CLEANUP PROFILE ORCHESTRATOR                        *)
(***************************************************************************)
MaxCalls == 2

\* the task slots in which an orchestrator call can run
ExecSlots == {"A", "B"}

STOPPED == "DOCKERMON_CLEANUP_STOPPED_AGE_DAYS"
IMAGE == "DOCKERMON_CLEANUP_IMAGE_AGE_DAYS"
EnvVars == {STOPPED, IMAGE}

CleanupProfile == {"Conservative", "Moderate", "Aggressive"}
Paths == {"local", "remote"}

\* i64::MAX.  TLC's integers are 32-bit: the value stands for i64::MAX, and
\* the one arithmetic operation applied to it (times 24) is modelled by its
\* overflow.
I64Max == 2147483647

stopped_container_age_days(profile) ==
    CASE profile = "Conservative" -> 30
      [] profile = "Moderate" -> 7
      [] profile = "Aggressive" -> 0

unused_image_age_days(profile) ==
    CASE profile = "Conservative" -> I64Max
      [] profile = "Moderate" -> 90
      [] profile = "Aggressive" -> 30

\* Mutant: only the Aggressive profile prunes unused images.
prune_unused_images_aggressive_only(profile) == profile = "Aggressive"

prune_unused_images(profile) ==
    CASE profile = "Conservative" -> FALSE
      [] profile = "Moderate" -> TRUE
      [] profile = "Aggressive" -> TRUE

\* i64::to_string on the values that occur
I64ToString(n) ==
    CASE n = 0 -> "0"
      [] n = 7 -> "7"
      [] n = 14 -> "14"
      [] n = 30 -> "30"
      [] n = 90 -> "90"
      [] n = I64Max -> "9223372036854775807"

\* str::parse::<i64>().ok()
ParseI64(str) ==
    CASE str = "0" -> Some(0)
      [] str = "7" -> Some(7)
      [] str = "14" -> Some(14)
      [] str = "30" -> Some(30)
      [] str = "90" -> Some(90)
      [] str = "9223372036854775807" -> Some(I64Max)
      [] OTHER -> None

\* values the operator may have configured before the process started
ConfiguredValues == {None, Some("14")}

\* std::env::var(name).ok()
EnvVar(e, name) == e[name]
\* std::env::set_var(name, value)
SetVar(e, name, value) == [e EXCEPT ![name] = Some(value)]
\* std::env::remove_var(name)
RemoveVar(e, name) == [e EXCEPT ![name] = None]

\* std::env::var(name).ok().and_then(|s| s.parse::<i64>().ok()).unwrap_or(default)
ThresholdFromEnv(e, name, default) ==
    IF EnvVar(e, name) = None THEN default
    ELSE IF ParseI64(Unwrap(EnvVar(e, name))) = None THEN default
    ELSE Unwrap(ParseI64(Unwrap(EnvVar(e, name))))

DefaultStoppedAgeDays == 30
DefaultImageAgeDays == 90

\* `let until_hours = days * 24;` on i64: the product of i64::MAX overflows,
\* which panics in a build with overflow checks and wraps (to -24) without.
UntilFilters(days) ==
    IF days > I64Max \div 24
    THEN {[kind |-> "panic", hours |-> 0], [kind |-> "until", hours |-> 0 - 24]}
    ELSE {[kind |-> "until", hours |-> days * 24]}

NoFilter == [kind |-> "none", hours |-> 0]
NotRun == [kind |-> "not_run", hours |-> 0]

\* Mutant: the restore writes nothing back.
RestoreSkipped(e, name, original) == e

\* `if let Some(age) = original { set_var(name, age) } else { remove_var(name) }`
Restore(e, name, original) ==
    IF original # None THEN SetVar(e, name, Unwrap(original)) ELSE RemoveVar(e, name)

IdleExec ==
    [pc |-> "idle", profile |-> "Conservative", path |-> "local",
     original_container_age |-> None, original_image_age |-> None,
     errors |-> 0, trace |-> <<>>,
     stopped_filter |-> NotRun, image_filter |-> NotRun]

Active(x) == x.pc \notin {"idle", "returned", "panicked"}
NoneActive == \A e \in ExecSlots : ~Active(execs[e])

\* what a prune call can return: the local build-cache prune is a stub that
\* always returns Ok.
StepOutcomes(path, step) ==
    IF path = "local" /\ step = "build_cache" THEN {"ok"} ELSE {"ok", "err"}

\* `Err(e) => result.errors.push(format!("Failed to prune ...: {}", e))`;
\* errors is the length of result.errors
PushError(x, step, outcome) ==
    IF outcome = "err" THEN x.errors + 1 ELSE x.errors

\* execute_cleanup_with_profile(docker, profile) /
\* execute_cleanup_with_profile_remote(executor, profile) is called.
Enter(e, profile, path) ==
    /\ execs' = [execs EXCEPT ![e] =
            [IdleExec EXCEPT !.pc = "read_container_age", !.profile = profile,
                             !.path = path]]
    /\ calls' = calls + 1
    /\ overlapped' = (overlapped \/ ~NoneActive)
    /\ UNCHANGED <<env, env0>>

\* a call from one of two parallel tasks, whatever the other task is doing
Call(e, profile, path) ==
    /\ execs[e].pc = "idle"
    /\ Enter(e, profile, path)

\* a call made while no other call is in progress
CallAlone(e, profile, path) ==
    /\ calls < MaxCalls
    /\ NoneActive
    /\ Enter(e, profile, path)

ReadOriginalContainerAge(e) ==
    /\ execs[e].pc = "read_container_age"
    /\ execs' = [execs EXCEPT ![e].original_container_age = EnvVar(env, STOPPED),
                              ![e].pc = "read_image_age"]
    /\ UNCHANGED <<env, env0, calls, overlapped>>

ReadOriginalImageAge(e) ==
    /\ execs[e].pc = "read_image_age"
    /\ execs' = [execs EXCEPT ![e].original_image_age = EnvVar(env, IMAGE),
                              ![e].pc = "set_container_age"]
    /\ UNCHANGED <<env, env0, calls, overlapped>>

SetContainerAge(e) ==
    /\ execs[e].pc = "set_container_age"
    /\ env' = SetVar(env, STOPPED,
                     I64ToString(stopped_container_age_days(execs[e].profile)))
    /\ execs' = [execs EXCEPT ![e].pc = "set_image_age"]
    /\ UNCHANGED <<env0, calls, overlapped>>

SetImageAge(e) ==
    /\ execs[e].pc = "set_image_age"
    /\ env' = SetVar(env, IMAGE,
                     I64ToString(unused_image_age_days(execs[e].profile)))
    /\ execs' = [execs EXCEPT ![e].pc = "dangling",
                              ![e].trace = Append(@, "set")]
    /\ UNCHANGED <<env0, calls, overlapped>>

\* execute_safe_cleanup: prune dangling images
PruneDanglingImages(e) ==
    /\ execs[e].pc = "dangling"
    /\ \E outcome \in StepOutcomes(execs[e].path, "dangling") :
        execs' = [execs EXCEPT ![e].errors = PushError(execs[e], "dangling", outcome),
                               ![e].pc = "networks"]
    /\ UNCHANGED <<env, env0, calls, overlapped>>

\* execute_safe_cleanup: prune unused networks
PruneUnusedNetworks(e) ==
    /\ execs[e].pc = "networks"
    /\ \E outcome \in StepOutcomes(execs[e].path, "networks") :
        execs' = [execs EXCEPT ![e].errors = PushError(execs[e], "networks", outcome),
                               ![e].pc = "build_cache"]
    /\ UNCHANGED <<env, env0, calls, overlapped>>

\* execute_safe_cleanup: prune build cache
PruneBuildCache(e) ==
    /\ execs[e].pc = "build_cache"
    /\ \E outcome \in StepOutcomes(execs[e].path, "build_cache") :
        execs' = [execs EXCEPT ![e].errors = PushError(execs[e], "build_cache", outcome),
                               ![e].pc = "containers"]
    /\ UNCHANGED <<env, env0, calls, overlapped>>

\* the filter of the stopped-container prune: the remote path reads the
\* threshold from the environment, the local path passes no filter at all
StoppedFilters(path, e) ==
    IF path = "remote"
    THEN UntilFilters(ThresholdFromEnv(e, STOPPED, DefaultStoppedAgeDays))
    ELSE {NoFilter}

\* the filter of the unused-image prune, likewise
ImageFilters(path, e) ==
    IF path = "remote"
    THEN UntilFilters(ThresholdFromEnv(e, IMAGE, DefaultImageAgeDays))
    ELSE {NoFilter}

\* after safe cleanup: `if profile.prune_unused_images() { ... }`
AfterSafeCleanup(profile) ==
    IF prune_unused_images(profile) THEN "unused" ELSE "restore_container_age"

\* execute_safe_cleanup: prune stopped containers, and return to the orchestrator
PruneStoppedContainers(e) ==
    /\ execs[e].pc = "containers"
    /\ \E f \in StoppedFilters(execs[e].path, env) :
       \E outcome \in StepOutcomes(execs[e].path, "containers") :
        execs' = [execs EXCEPT
            ![e].stopped_filter = f,
            ![e].errors = IF f.kind = "panic" THEN @
                          ELSE PushError(execs[e], "containers", outcome),
            ![e].trace = IF f.kind = "panic" THEN @ ELSE Append(@, "safe"),
            ![e].pc = IF f.kind = "panic" THEN "panicked"
                      ELSE AfterSafeCleanup(execs[e].profile)]
    /\ UNCHANGED <<env, env0, calls, overlapped>>

\* execute_unused_image_cleanup(_remote): its own result collects the error
\* of a failed prune; the orchestrator copies unused_images_removed and
\* space_reclaimed_bytes from it, so result.errors stays as it was.
PruneUnusedImages(e) ==
    /\ execs[e].pc = "unused"
    /\ \E f \in ImageFilters(execs[e].path, env) :
       \E outcome \in StepOutcomes(execs[e].path, "unused") :
        execs' = [execs EXCEPT
            ![e].image_filter = f,
            ![e].trace = IF f.kind = "panic" THEN @ ELSE Append(@, "unused"),
            ![e].pc = IF f.kind = "panic" THEN "panicked" ELSE "restore_container_age"]
    /\ UNCHANGED <<env, env0, calls, overlapped>>

RestoreContainerAge(e) ==
    /\ execs[e].pc = "restore_container_age"
    /\ env' = Restore(env, STOPPED, execs[e].original_container_age)
    /\ execs' = [execs EXCEPT ![e].pc = "restore_image_age"]
    /\ UNCHANGED <<env0, calls, overlapped>>

\* the second restore, and `Ok(result)`
RestoreImageAge(e) ==
    /\ execs[e].pc = "restore_image_age"
    /\ env' = Restore(env, IMAGE, execs[e].original_image_age)
    /\ execs' = [execs EXCEPT ![e].pc = "returned",
                              ![e].trace = Append(@, "restore")]
    /\ UNCHANGED <<env0, calls, overlapped>>

ProfileStep(e) ==
    \/ ReadOriginalContainerAge(e)
    \/ ReadOriginalImageAge(e)
    \/ SetContainerAge(e)
    \/ SetImageAge(e)
    \/ PruneDanglingImages(e)
    \/ PruneUnusedNetworks(e)
    \/ PruneBuildCache(e)
    \/ PruneStoppedContainers(e)
    \/ PruneUnusedImages(e)
    \/ RestoreContainerAge(e)
    \/ RestoreImageAge(e)

IdleProfile ==
    /\ env = [v \in EnvVars |-> None]
    /\ env0 = env
    /\ execs = [e \in ExecSlots |-> IdleExec]
    /\ calls = 0
    /\ overlapped = FALSE


(***************************************************************************)
(*                           CLEANUP ANALYZER                              *)
(***************************************************************************)
MaxSize == 2

\* total_size_bytes of one category, as the analyzer of that category
\* summed it up
Sizes == 0..MaxSize
\* Result<Stats>: an analyzer fails (Docker API / command error) or yields
\* the category's total size
AnalyzerErr == [ok |-> FALSE, total_size_bytes |-> 0]
AnalyzerOk(n) == [ok |-> TRUE, total_size_bytes |-> n]
AnalyzerResults == {AnalyzerErr} \cup {AnalyzerOk(n) : n \in Sizes}
\* ImageStats::default(), LogStats::default(), VolumeStats::default()
StatsDefault == AnalyzerOk(0)

\* CleanupReport::new
CleanupReport_new(server) ==
    [server |-> server,
     dangling_images |-> 0, unused_images |-> 0, build_cache |-> 0,
     stopped_containers |-> 0, large_logs |-> 0, volumes |-> 0,
     total_reclaimable_bytes |-> 0]

\* Mutant: unused images counted as reclaimable.
calculate_reclaimable_with_unused(r) ==
    [r EXCEPT !.total_reclaimable_bytes =
        r.dangling_images + r.unused_images + r.build_cache + r.stopped_containers]

\* CleanupReport::calculate_reclaimable
calculate_reclaimable(r) ==
    [r EXCEPT !.total_reclaimable_bytes =
        r.dangling_images + r.build_cache + r.stopped_containers]

NotAnalyzed == [state |-> "none", path |-> "none", report |-> CleanupReport_new("")]
AnalysisErr(path) == [state |-> "err", path |-> path, report |-> CleanupReport_new("")]
AnalysisOk(path, r) == [state |-> "ok", path |-> path, report |-> r]

\* the body shared by both analyses: each `?` returns the first error; the
\* network analysis (nw) yields a count only, no size
Analyze(path, server, dg, un, nw, bc, st, lg, vl) ==
    IF \E a \in {dg, un, nw, bc, st, lg, vl} : ~a.ok
    THEN AnalysisErr(path)
    ELSE AnalysisOk(path, calculate_reclaimable(
            [CleanupReport_new(server) EXCEPT
                !.dangling_images = dg.total_size_bytes,
                !.unused_images = un.total_size_bytes,
                !.build_cache = bc.total_size_bytes,
                !.stopped_containers = st.total_size_bytes,
                !.large_logs = lg.total_size_bytes,
                !.volumes = vl.total_size_bytes]))

\* analyze_cleanup (local Docker API): seven analyzers, then the total
analyze_cleanup ==
    /\ report = NotAnalyzed
    /\ \E dg, un, nw, bc, st, lg, vl \in AnalyzerResults :
          report' = Analyze("local", "local", dg, un, nw, bc, st, lg, vl)
    /\ UNCHANGED anOther

\* analyze_cleanup_remote (Docker CLI over the executor): the unused-image
\* analysis is a stub returning the default, logs and volumes are defaults
analyze_cleanup_remote ==
    /\ report = NotAnalyzed
    /\ \E dg, nw, bc, st \in AnalyzerResults :
          report' = Analyze("remote", "web", dg, StatsDefault, nw, bc, st,
                            StatsDefault, StatsDefault)
    /\ UNCHANGED anOther

IdleAnalyzer == report = NotAnalyzed

(***************************************************************************)
(*                           COMMAND EXECUTOR                              *)
(***************************************************************************)
MaxOut == 1
MaxFragments == 3

\* Duration::from_secs(120)
TimeoutSecs == 120

PermissionDenied == <<"P", "e", "r", "m", "i", "s", "s", "i", "o", "n", " ", "d", "e", "n", "i", "e", "d">>
ConnectionRefused == <<"C", "o", "n", "n", "e", "c", "t", "i", "o", "n", " ", "r", "e", "f", "u", "s", "e", "d">>

\* what the child process can write to stderr: pieces of ssh's and of the
\* remote command's messages, and an invalid byte
StderrFragments ==
    { <<"P", "e", "r", "m", "i", "s", "s", "i", "o", "n", " ">>,
      <<"d", "e", "n", "i", "e", "d">>,
      <<"p", "e", "r", "m", "i", "s", "s", "i", "o", "n", " ", "d", "e", "n", "i", "e", "d">>,
      ConnectionRefused,
      <<"w", "a", "r", "n">>,
      <<"0xFF">> }
Stderrs == Concats(StderrFragments, MaxFragments)
Stdouts == StrUpTo({"o", "0xFF"}, MaxOut)

\* ExitStatus: an exit code, or killed by a signal (no code)
Signalled == -1
ExitStatuses == {0, 1, 100, 255, Signalled}
\* ExitStatus::success
success(status) == status = 0

\* seconds until the child has exited and its pipes are drained
ElapsedChoices == {0, TimeoutSecs, TimeoutSecs + 1}

\* the servers an executor is built for
LocalServer == [name |-> "localhost", ssh_host |-> None]
RemoteServer == [name |-> "web", ssh_host |-> Some("u@web")]
ExecServers == {LocalServer, RemoteServer}
\* Server::is_local
is_local(server) == server.ssh_host = None

Ok(text) == [ok |-> TRUE, err |-> "", text |-> text]
Err(kind) == [ok |-> FALSE, err |-> kind, text |-> <<>>]

\* what Command::output() does: fails to start the process (io::Error), or
\* yields the exit status and the captured streams after `elapsed` seconds
SpawnFailure ==
    [spawned |-> FALSE, elapsed |-> 0, status |-> 0, stdout |-> <<>>, stderr |-> <<>>]
Outputs ==
    {SpawnFailure} \cup
    [spawned : {TRUE}, elapsed : ElapsedChoices, status : ExitStatuses,
     stdout : Stdouts, stderr : Stderrs]

\* tokio::time::timeout polls the wrapped future before the timer
TimedOut(out) == out.spawned /\ out.elapsed > TimeoutSecs

\* Mutant: a non-zero exit status fails the local call.
execute_local_strict(out) ==
    IF TimedOut(out) THEN Err("timeout")
    ELSE IF ~out.spawned THEN Err("spawn")
    ELSE IF ~success(out.status) THEN Err("exit")
    ELSE Ok(from_utf8_lossy(out.stdout))

\* RemoteExecutor::execute_local
execute_local(out) ==
    IF TimedOut(out) THEN Err("timeout")
    ELSE IF ~out.spawned THEN Err("spawn")
    ELSE Ok(from_utf8_lossy(out.stdout))

\* Mutant: the stderr patterns fail the call whatever the exit status.
execute_ssh_any_status(server, out) ==
    IF server.ssh_host = None THEN Err("no_ssh_host")
    ELSE IF TimedOut(out) THEN Err("timeout")
    ELSE IF ~out.spawned THEN Err("spawn")
    ELSE IF \/ Contains(from_utf8_lossy(out.stderr), PermissionDenied)
            \/ Contains(from_utf8_lossy(out.stderr), ConnectionRefused)
         THEN Err("ssh_failed")
    ELSE Ok(from_utf8_lossy(out.stdout))

\* RemoteExecutor::execute_ssh
execute_ssh(server, out) ==
    IF server.ssh_host = None THEN Err("no_ssh_host")
    ELSE IF TimedOut(out) THEN Err("timeout")
    ELSE IF ~out.spawned THEN Err("spawn")
    ELSE IF /\ ~success(out.status)
            /\ \/ Contains(from_utf8_lossy(out.stderr), PermissionDenied)
               \/ Contains(from_utf8_lossy(out.stderr), ConnectionRefused)
         THEN Err("ssh_failed")
    ELSE Ok(from_utf8_lossy(out.stdout))

\* RemoteExecutor::execute
execute(server, out) ==
    IF is_local(server) THEN execute_local(out) ELSE execute_ssh(server, out)

NoCall == [called |-> FALSE, server |-> LocalServer, out |-> SpawnFailure, result |-> Err("")]

\* RemoteExecutor::execute_command
execute_command ==
    /\ xcall = NoCall
    /\ \E server \in ExecServers, out \in Outputs :
          xcall' = [called |-> TRUE, server |-> server, out |-> out,
                    result |-> execute(server, out)]
    /\ UNCHANGED exOther

IdleExecutor == xcall = NoCall

(***************************************************************************)
(*                          SERVER SPEC PARSER                             *)
(***************************************************************************)
MaxPieces == 4

\* the pieces server specs are written from
SpecPieces ==
    { <<"l", "o", "c", "a", "l">>,
      <<"L", "o", "c", "a", "l">>,
      <<"h", "o", "s", "t">>,
      <<"w", "e", "b">>,
      <<"u", "@", "h">>,
      <<":">>,
      <<" ">> }
ServerSpecs == Concats(SpecPieces, MaxPieces)
\* UPDATE_LOCAL_NAME as the process finds it
LocalNames == {None, Some(<<"b", "o", "x">>)}

Whitespace == {" ", "\n", "\t"}
\* str::trim
RECURSIVE TrimStart(_)
TrimStart(str) ==
    IF str # <<>> /\ Head(str) \in Whitespace THEN TrimStart(Tail(str)) ELSE str
RECURSIVE TrimEnd(_)
TrimEnd(str) ==
    IF str # <<>> /\ str[Len(str)] \in Whitespace
    THEN TrimEnd(SubSeq(str, 1, Len(str) - 1)) ELSE str
Trim(str) == TrimEnd(TrimStart(str))

\* str::split(sep).collect(): always at least one part
RECURSIVE Split(_, _)
Split(str, sep) ==
    IF \E i \in 1..Len(str) : str[i] = sep
    THEN LET i == CHOOSE k \in 1..Len(str) :
                     str[k] = sep /\ \A j \in 1..(k - 1) : str[j] # sep
         IN <<SubSeq(str, 1, i - 1)>> \o Split(SubSeq(str, i + 1, Len(str)), sep)
    ELSE <<str>>

\* u8::to_ascii_lowercase on the letters that occur
ToAsciiLower(c) ==
    CASE c = "L" -> "l"
      [] c = "W" -> "w"
      [] c = "E" -> "e"
      [] c = "B" -> "b"
      [] OTHER -> c
\* str::eq_ignore_ascii_case
eq_ignore_ascii_case(a, b) ==
    /\ Len(a) = Len(b)
    /\ \A i \in 1..Len(a) : ToAsciiLower(a[i]) = ToAsciiLower(b[i])

StrLocal == <<"l", "o", "c", "a", "l">>
StrLocalhost == <<"l", "o", "c", "a", "l", "h", "o", "s", "t">>
\* the localhost indicators
IsLocalIndicator(str) ==
    eq_ignore_ascii_case(str, StrLocal) \/ eq_ignore_ascii_case(str, StrLocalhost)

\* Mutant: an empty host also means the local system.
IsLocalIndicatorOrEmpty(str) == str = <<>> \/ IsLocalIndicator(str)

\* Server::local
Server_local(local_name) ==
    [name |-> IF IsSome(local_name) THEN Unwrap(local_name) ELSE StrLocalhost,
     ssh_host |-> None]

ParseOk(server) == [ok |-> TRUE, server |-> server]
ParseErr == [ok |-> FALSE, server |-> [name |-> <<>>, ssh_host |-> None]]

\* Server::parse
Server_parse(input, local_name) ==
    LET parts == Split(Trim(input), ":") IN
    IF Len(parts) = 1 THEN
        LET part == Trim(parts[1]) IN
        IF IsLocalIndicator(part) THEN ParseOk(Server_local(local_name))
        ELSE LET at == Split(part, "@") IN
             ParseOk([name |-> at[Len(at)], ssh_host |-> Some(part)])
    ELSE IF Len(parts) = 2 THEN
        LET name == Trim(parts[1])
            host == Trim(parts[2]) IN
        IF IsLocalIndicator(host) THEN ParseOk([name |-> name, ssh_host |-> None])
        ELSE ParseOk([name |-> name, ssh_host |-> Some(host)])
    ELSE ParseErr

NotParsed == [called |-> FALSE, input |-> <<>>, result |-> ParseErr]

\* a call of Server::parse on a configured or requested server spec
Parse ==
    /\ parsed = NotParsed
    /\ \E input \in ServerSpecs, local_name \in LocalNames :
          parsed' = [called |-> TRUE, input |-> input,
                     result |-> Server_parse(input, local_name)]
    /\ UNCHANGED paOther

IdleParser == parsed = NotParsed

(***************************************************************************)
(*                           SERVER REGISTRY                               *)
(***************************************************************************)
MaxSpecs == 3

\* the server definitions UPDATE_SERVERS is written from
RegistrySpecs ==
    { <<"w", "e", "b", ":", "u", "@", "h">>,
      <<"w", "e", "b", ":", "l", "o", "c", "a", "l">>,
      <<"b", "o", "x", ":", "u", "@", "h">>,
      <<"l", "o", "c", "a", "l">>,
      <<"w", "e", "b", ":", "u", ":", "h">> }

\* the definitions joined by commas
RECURSIVE JoinComma(_)
JoinComma(strs) ==
    IF strs = <<>> THEN <<>>
    ELSE IF Len(strs) = 1 THEN strs[1]
    ELSE strs[1] \o <<",">> \o JoinComma(Tail(strs))

\* UPDATE_SERVERS as configured (unset reads as the empty string)
ServerLists == {JoinComma(ds) : ds \in StrUpTo(RegistrySpecs, MaxSpecs)}

\* HashMap::new()
EmptyMap == <<>>
\* HashMap::insert: an existing entry for the key is replaced
MapInsert(map, key, value) ==
    [k \in (DOMAIN map) \cup {key} |-> IF k = key THEN value ELSE map[k]]

\* registry.insert(server.name.clone(), server)
RegistryInsert(map, key, value) == MapInsert(map, key, value)

RegistryOk(map) == [ok |-> TRUE, registry |-> map]
RegistryErr == [ok |-> FALSE, registry |-> EmptyMap]

\* the loop over server_str.split(','): `?` returns the first parse error
RECURSIVE InsertDefs(_, _, _)
InsertDefs(map, server_defs, local_name) ==
    IF server_defs = <<>> THEN RegistryOk(map)
    ELSE LET p == Server_parse(Trim(Head(server_defs)), local_name) IN
         IF ~p.ok THEN RegistryErr
         ELSE InsertDefs(RegistryInsert(map, p.server.name, p.server),
                         Tail(server_defs), local_name)

\* build_server_registry
build_server_registry(server_str, local_name) ==
    LET local_server == Server_local(local_name)
        registry0 == RegistryInsert(EmptyMap, local_server.name, local_server)
    IN IF server_str # <<>>
       THEN InsertDefs(registry0, Split(server_str, ","), local_name)
       ELSE RegistryOk(registry0)

NotBuilt == [built |-> FALSE, server_str |-> <<>>, local_name |-> None,
             result |-> RegistryErr]

\* the registry is built once at start from the process environment
BuildServerRegistry ==
    /\ registry = NotBuilt
    /\ \E server_str \in ServerLists, local_name \in LocalNames :
          registry' = [built |-> TRUE, server_str |-> server_str,
                       local_name |-> local_name,
                       result |-> build_server_registry(server_str, local_name)]
    /\ UNCHANGED rgOther

IdleRegistry == registry = NotBuilt

(***************************************************************************)
(*                 UPDATE CHECK (check_updates, DNF refresh)               *)
(***************************************************************************)
MaxLines == 2

\* the package managers whose checkers are modelled
Checkers == {"Dnf", "Pacman"}
\* UpdateChecker::check_command
check_command(checker) ==
    IF checker = "Dnf"
    THEN [cmd |-> "/usr/bin/dnf", args |-> <<"check-update", "--quiet", "--cacheonly">>]
    ELSE [cmd |-> "/usr/bin/checkupdates", args |-> <<>>]

\* `cmd == "/usr/bin/dnf" && args.contains(&"--cacheonly")`
RefreshesCache(command) ==
    /\ command.cmd = "/usr/bin/dnf"
    /\ \E i \in 1..Len(command.args) : command.args[i] = "--cacheonly"

\* output lines of a check command, each a sequence of whitespace-separated words
CheckLines ==
    { <<"docker-ce.x86_64", "3:25.0.0-1.fc39", "docker-ce-stable">>,
      <<"#", "metadata", "expired">>,
      <<"Last", "check">>,
      <<>> }
CheckOutputs == StrUpTo(CheckLines, MaxLines)

\* first.split('.').next() on the words that occur
BeforeFirstDot(word) ==
    CASE word = "docker-ce.x86_64" -> "docker-ce"
      [] word = "3:25.0.0-1.fc39" -> "3:25"
      [] OTHER -> word
\* line.starts_with('#')
StartsWithHash(line) == line # <<>> /\ line[1] = "#"

\* DnfChecker::parse_updates
DnfKeeps(line) == line # <<>> /\ ~StartsWithHash(line) /\ Len(line) >= 3
parse_updates_dnf(output) ==
    LET kept == SelectSeq(output, DnfKeeps) IN
    [i \in 1..Len(kept) |-> BeforeFirstDot(kept[i][1])]

\* PacmanChecker::parse_updates
PacmanKeeps(line) == line # <<>>
parse_updates_pacman(output) ==
    LET kept == SelectSeq(output, PacmanKeeps) IN
    [i \in 1..Len(kept) |-> kept[i][1]]

\* UpdateChecker::parse_updates
parse_updates(checker, output) ==
    IF checker = "Dnf" THEN parse_updates_dnf(output) ELSE parse_updates_pacman(output)

\* what self.execute(cmd, &args) can return for the foreground command
ForegroundResults ==
    {Err("timeout"), Err("spawn"), Err("ssh_failed")} \cup {Ok(o) : o \in CheckOutputs}
\* how the background `dnf makecache --quiet` can end
RefreshOutcomes == {"success", "failure", "timeout"}

\* Mutant: the result of the refresh task is joined into the result.
check_updates_joined(c, fg) ==
    IF c.bg_outcome \in {"failure", "timeout"} \/ ~fg.ok THEN Err(fg.err)
    ELSE Ok(parse_updates(c.checker, fg.text))

\* `let output = self.execute(cmd, &args).await?; Ok(checker.parse_updates(&output))`
\* (the refresh task's result is dropped: `let _ = executor.execute(..).await`)
check_updates_result(c, fg) ==
    IF ~fg.ok THEN Err(fg.err)
    ELSE Ok(parse_updates(c.checker, fg.text))

NoCheck ==
    [pc |-> "idle", checker |-> "Dnf", fg |-> Err(""), result |-> Err(""),
     bg |-> "none", bg_outcome |-> "none", bg_at_return |-> "none"]

\* check_updates is called: tokio::spawn of the refresh for DNF, then the
\* foreground command is started
CheckUpdatesCalled ==
    /\ chk.pc = "idle"
    /\ \E checker \in Checkers :
          chk' = [chk EXCEPT
                    !.pc = "executing",
                    !.checker = checker,
                    !.bg = IF RefreshesCache(check_command(checker))
                           THEN "spawned" ELSE "none"]
    /\ UNCHANGED ckOther

\* the spawned task is scheduled and starts `dnf makecache --quiet`
RefreshStarts ==
    /\ chk.bg = "spawned"
    /\ chk' = [chk EXCEPT !.bg = "running"]
    /\ UNCHANGED ckOther

\* the refresh command ends and the task drops its result
RefreshEnds ==
    /\ chk.bg = "running"
    /\ \E outcome \in RefreshOutcomes :
          chk' = [chk EXCEPT !.bg = "done", !.bg_outcome = outcome]
    /\ UNCHANGED ckOther

\* the foreground command returns and check_updates returns
CheckUpdatesReturns ==
    /\ chk.pc = "executing"
    /\ \E fg \in ForegroundResults :
          chk' = [chk EXCEPT
                    !.pc = "returned",
                    !.fg = fg,
                    !.result = check_updates_result(chk, fg),
                    !.bg_at_return = chk.bg]
    /\ UNCHANGED ckOther

IdleCheck == chk = NoCheck

(***************************************************************************)
(*                    UPDATER (update_os, update_docker)                   *)
(***************************************************************************)
MaxUpdates == 2
MaxImages == 2

\* ---- restart policy and exclusions ----
WebhookToken == <<"u", "p", "d", "a", "t", "e", "c", "t", "l", "_", "w", "e", "b", "h", "o", "o", "k">>
StrNone == <<"n", "o", "n", "e">>
StrAllExceptWebhook == <<"a", "l", "l", "-", "e", "x", "c", "e", "p", "t", "-", "w", "e", "b", "h", "o", "o", "k">>

\* UPDATECTL_RESTART_POLICY as the process finds it
PolicyValues ==
    {None, Some(StrNone), Some(StrAllExceptWebhook), Some(<<"a", "l", "l">>), Some(<<>>)}
\* UPDATECTL_RESTART_EXCLUDE_DEFAULT
ExcludeDefaultValues == {None, Some(<<"d", "b", ",", " ", ",">>)}
\* UPDATECTL_RESTART_EXCLUDE
ExcludeValues ==
    {None, Some(<<"W", "E", "B", ":", "d", "b">>), Some(<<"n", "a", "s", ":", "d", "b", ",", " ", "w", "e", "b", " ", ":", " ", "c", "a", "c", "h", "e">>), Some(<<"w", "e", "b", ":">>)}
\* executor.server_name()
UpdateServerNames == {<<"w", "e", "b">>, <<"n", "a", "s", "2">>}
\* names of running containers
ContainerNames ==
    { <<"u", "p", "d", "a", "t", "e", "c", "t", "l", "_", "w", "e", "b", "h", "o", "o", "k">>,
      <<"x", "_", "u", "p", "d", "a", "t", "e", "c", "t", "l", "_", "w", "e", "b", "h", "o", "o", "k", "_", "1">>,
      <<"w", "e", "b", "h", "o", "o", "k">>,
      <<"d", "b", "1">>,
      <<"c", "a", "c", "h", "e">> }

\* get_restart_policy
get_restart_policy(policy_var) ==
    IF IsSome(policy_var) THEN Unwrap(policy_var) ELSE StrAllExceptWebhook

\* trimmed, non-empty items of a comma-separated list
DefaultList(defaults) ==
    SelectSeq([i \in 1..Len(Split(defaults, ",")) |-> Trim(Split(defaults, ",")[i])],
              LAMBDA item : item # <<>>)

\* str::split_once(':'): None without a ':', else what is before and after
\* the first one
SplitOnce(str, sep) ==
    IF \E i \in 1..Len(str) : str[i] = sep
    THEN LET i == CHOOSE k \in 1..Len(str) :
                     str[k] = sep /\ \A j \in 1..(k - 1) : str[j] # sep
         IN Some(<<SubSeq(str, 1, i - 1), SubSeq(str, i + 1, Len(str))>>)
    ELSE None

\* the server-specific exclusions that apply to server_name
RECURSIVE SpecificList(_, _)
SpecificList(pairs, server_name) ==
    IF pairs = <<>> THEN <<>>
    ELSE LET once == SplitOnce(Trim(Head(pairs)), ":")
             rest == SpecificList(Tail(pairs), server_name)
         IN IF IsSome(once)
               /\ eq_ignore_ascii_case(Trim(Unwrap(once)[1]), server_name)
            THEN <<Trim(Unwrap(once)[2])>> \o rest
            ELSE rest

\* get_restart_exclusions
get_restart_exclusions(server_name, default_var, specific_var) ==
    (IF IsSome(default_var) THEN DefaultList(Unwrap(default_var)) ELSE <<>>)
    \o (IF IsSome(specific_var)
        THEN SpecificList(Split(Unwrap(specific_var), ","), server_name)
        ELSE <<>>)

\* Mutant: only the policy all-except-webhook spares the webhook container.
should_restart_any_unknown(container_name, policy, excluded) ==
    IF \E i \in 1..Len(excluded) : Contains(container_name, excluded[i]) THEN FALSE
    ELSE IF policy = StrNone THEN FALSE
    ELSE IF policy = StrAllExceptWebhook THEN ~Contains(container_name, WebhookToken)
    ELSE TRUE

\* should_restart_container
should_restart_container(container_name, policy, excluded) ==
    IF \E i \in 1..Len(excluded) : Contains(container_name, excluded[i]) THEN FALSE
    ELSE IF policy = StrNone THEN FALSE
    ELSE IF policy = StrAllExceptWebhook THEN ~Contains(container_name, WebhookToken)
    ELSE ~Contains(container_name, WebhookToken)

\* ---- commands sent to the server ----
Cmd(kind, arg) == [kind |-> kind, arg |-> arg]
NoArg == <<>>
\* PackageManager::all(), in detection order
PackageManagers == <<"Apt", "Dnf", "Pacman">>

\* Result<String> of an update operation: the message and its count
NoDetail == [failed |-> 0, restarted |-> 0, restart_failed |-> 0, note |-> ""]
UpdateOk(msg, n) == [ok |-> TRUE, msg |-> msg, n |-> n, detail |-> NoDetail]
UpdateErr(msg) == [ok |-> FALSE, msg |-> msg, n |-> 0, detail |-> NoDetail]
\* Result<Vec<String>> of check_updates: an error or the number of updates
CheckErr == [ok |-> FALSE, n |-> 0]
CheckOk(n) == [ok |-> TRUE, n |-> n]
CheckResults == {CheckErr} \cup {CheckOk(n) : n \in 0..MaxUpdates}

Run(cmds, spawned, result) == [cmds |-> cmds, spawned |-> spawned, result |-> result]

\* detect_package_manager: probe the candidates in order, return the first
\* whose binary is there
RECURSIVE Probes(_, _)
Probes(candidates, installed) ==
    IF candidates = <<>> THEN <<>>
    ELSE <<Cmd("detect", Head(candidates))>>
         \o (IF Head(candidates) \in installed THEN <<>>
             ELSE Probes(Tail(candidates), installed))
detect_package_manager(installed) ==
    IF \E i \in 1..3 : PackageManagers[i] \in installed
    THEN Some(PackageManagers[CHOOSE i \in 1..3 :
                 /\ PackageManagers[i] \in installed
                 /\ \A j \in 1..(i - 1) : PackageManagers[j] \notin installed])
    ELSE None

\* check_updates as update_os uses it: the check command, and for DNF the
\* spawned cache refresh
CheckCmds(pm) == <<Cmd("check", pm)>>
CheckSpawns(pm) == IF pm = "Dnf" THEN <<Cmd("makecache", pm)>> ELSE <<>>

\* the upgrade commands of a package manager, each followed by `?`
UpgradeCmds(pm) ==
    IF pm = "Apt" THEN <<Cmd("apt_update", pm), Cmd("upgrade", pm)>>
    ELSE <<Cmd("upgrade", pm)>>

\* a variant of update_os that re-checks even after a failed upgrade command
update_os_ignoring_errors(dry_run, installed, upgrade_ok, check) ==
    LET probes == Probes(PackageManagers, installed)
        found == detect_package_manager(installed)
        pm == Unwrap(found)
    IN
    IF found = None
    THEN Run(probes, <<>>, UpdateErr("No supported package manager found"))
    ELSE Run(probes \o (IF dry_run THEN <<>> ELSE UpgradeCmds(pm)) \o CheckCmds(pm),
             CheckSpawns(pm),
             IF ~check.ok THEN UpdateErr("check failed")
             ELSE IF check.n = 0
             THEN UpdateOk(IF dry_run THEN "No updates available" ELSE "Up to date", 0)
             ELSE UpdateOk(IF dry_run THEN "packages would be updated"
                           ELSE "updates still available", check.n))

\* update_os; upgrade_ok[i] tells whether the i-th upgrade command succeeds
update_os(dry_run, installed, upgrade_ok, check) ==
    LET probes == Probes(PackageManagers, installed)
        found == detect_package_manager(installed)
        pm == Unwrap(found)
        ups == UpgradeCmds(pm)
        failing == {i \in 1..Len(ups) : ~upgrade_ok[i]}
        first_failing == CHOOSE i \in failing : \A j \in failing : i <= j
    IN
    IF found = None
    THEN Run(probes, <<>>, UpdateErr("No supported package manager found"))
    ELSE IF dry_run
    THEN Run(probes \o CheckCmds(pm), CheckSpawns(pm),
             IF ~check.ok THEN UpdateErr("check failed")
             ELSE IF check.n = 0 THEN UpdateOk("No updates available", 0)
             ELSE UpdateOk("packages would be updated", check.n))
    ELSE IF failing # {}
    THEN Run(probes \o SubSeq(ups, 1, first_failing), <<>>, UpdateErr("upgrade failed"))
    ELSE Run(probes \o ups \o CheckCmds(pm), CheckSpawns(pm),
             IF ~check.ok THEN UpdateErr("check failed")
             ELSE IF check.n = 0 THEN UpdateOk("Up to date", 0)
             ELSE UpdateOk("updates still available", check.n))

\* ---- update_docker ----
StrNoneTag == <<"<", "n", "o", "n", "e", ">">>
\* lines `docker images --format {{.Repository}}:{{.Tag}}` can print
ImageLines ==
    { <<"n", "g", "i", "n", "x", ":", "l", "a", "t", "e", "s", "t">>,
      <<" ", "r", "e", "d", "i", "s", ":", "7", " ">>,
      <<"<", "n", "o", "n", "e", ">", ":", "<", "n", "o", "n", "e", ">">> }
\* Result<String> of the listing: an error, or the lines printed
ListErr == [ok |-> FALSE, lines |-> <<>>]
ListOk(lines) == [ok |-> TRUE, lines |-> lines]
Listings == {ListErr} \cup {ListOk(ls) : ls \in StrUpTo(ImageLines, MaxImages)}
\* the --images argument
ImagesArgs == {None, Some(<<"n", "g", "i", "n", "x">>), Some(<<"n", "g", "i", "n", "x", ",", " ", "r", "e", "d", "i", "s", ":", "7">>), Some(<<>>)}
\* lines `docker ps --format {{.Names}}:{{.Image}}` can print
PsOutputs ==
    { <<>>,
      <<<<"d", "b", "1", ":", "i", "m", "g">>>>,
      <<<<"u", "p", "d", "a", "t", "e", "c", "t", "l", "_", "w", "e", "b", "h", "o", "o", "k", ":", "i", "m", "g">>>>,
      <<<<" ", "c", "a", "c", "h", "e", " ", ":", "i", "m", "g">>, <<"x", "_", "u", "p", "d", "a", "t", "e", "c", "t", "l", "_", "w", "e", "b", "h", "o", "o", "k", "_", "1", ":", "i", "m", "g">>>>,
      <<<<"w", "e", "b", "h", "o", "o", "k", ":", "i", "m", "g">>, <<":", "i", "m", "g">>>> }
PsResults == {ListErr} \cup {ListOk(ls) : ls \in PsOutputs}

\* get_all_images
get_all_images(listing) ==
    LET kept == SelectSeq(listing.lines, LAMBDA line : ~Contains(line, StrNoneTag)) IN
    [i \in 1..Len(kept) |-> Trim(kept[i])]

\* imgs.split(',').map(|s| s.trim().to_string()).collect()
ImagesFromArg(imgs) ==
    [i \in 1..Len(Split(imgs, ",")) |-> Trim(Split(imgs, ",")[i])]

\* get_containers_using_image
get_containers_using_image(ps) ==
    SelectSeq([i \in 1..Len(ps.lines) |-> Trim(Split(ps.lines[i], ":")[1])],
              LAMBDA name : name # <<>>)

DockerOk(msg, n, detail) == [ok |-> TRUE, msg |-> msg, n |-> n, detail |-> detail]
DockerErr(msg) == UpdateErr(msg)

\* the containers of one image that pass the policy and the exclusions
ContainersToRestart(containers, policy, excluded) ==
    SelectSeq(containers, LAMBDA c : should_restart_container(c, policy, excluded))

\* the loop over image_list; acc collects the commands and the counters
RECURSIVE PullLoop(_, _, _, _, _, _, _)
PullLoop(image_list, acc, pull_fails, ps, restart_ok, policy, excluded) ==
    IF image_list = <<>> THEN acc
    ELSE
      LET image == Head(image_list)
          pull == Cmd("pull", image)
          containers == get_containers_using_image(ps)
          to_restart == ContainersToRestart(containers, policy, excluded)
          restarts == [i \in 1..Len(to_restart) |-> Cmd("restart", to_restart[i])]
          next ==
            IF image \in pull_fails
            THEN [acc EXCEPT !.cmds = @ \o <<pull>>, !.failed = @ + 1]
            ELSE IF ~ps.ok
            THEN [acc EXCEPT !.cmds = @ \o <<pull, Cmd("ps", image)>>,
                             !.updated = @ + 1]
            ELSE [acc EXCEPT
                    !.cmds = @ \o <<pull, Cmd("ps", image)>> \o restarts,
                    !.updated = @ + 1,
                    !.restarted = IF restart_ok THEN @ + Len(to_restart) ELSE @,
                    !.restart_failed = IF restart_ok THEN @ ELSE @ + Len(to_restart),
                    !.skipped = (@ \/ (Len(containers) - Len(to_restart) > 0))]
      IN PullLoop(Tail(image_list), next, pull_fails, ps, restart_ok, policy, excluded)

\* update_docker
update_docker(all, images, dry_run, listing, pull_fails, ps, restart_ok, server_name, policy_var, default_var, specific_var) ==
    LET list_cmds == IF all THEN <<Cmd("list_images", NoArg)>> ELSE <<>>
        image_list == IF all THEN get_all_images(listing)
                      ELSE IF IsSome(images) THEN ImagesFromArg(Unwrap(images))
                      ELSE <<>>
        policy == get_restart_policy(policy_var)
        excluded == get_restart_exclusions(server_name, default_var, specific_var)
        done == PullLoop(image_list,
                         [cmds |-> list_cmds, updated |-> 0, failed |-> 0,
                          restarted |-> 0, restart_failed |-> 0, skipped |-> FALSE],
                         pull_fails, ps, restart_ok, policy, excluded)
    IN
    IF ~all /\ images = None
    THEN Run(<<>>, <<>>, DockerOk("No images specified (use --all or --images)", 0, NoDetail))
    ELSE IF all /\ ~listing.ok
    THEN Run(list_cmds, <<>>, DockerErr("listing failed"))
    ELSE IF image_list = <<>>
    THEN Run(list_cmds, <<>>, DockerOk("No images found", 0, NoDetail))
    ELSE IF dry_run
    THEN Run(list_cmds, <<>>, DockerOk("images would be updated", Len(image_list), NoDetail))
    ELSE Run(done.cmds, <<>>,
             DockerOk("Updated images", done.updated,
                [failed |-> done.failed, restarted |-> done.restarted,
                 restart_failed |-> done.restart_failed,
                 note |-> IF ~done.skipped THEN ""
                          ELSE IF policy = StrNone
                          THEN "no containers restarted (policy: none)"
                          ELSE "some containers excluded from restart"]))

\* ---- one update operation on one server ----
\* what update_docker is asked to do and what the image listing prints
DockerSources ==
    [all : {FALSE}, images : ImagesArgs, listing : {ListErr}]
    \cup [all : {TRUE}, images : {None}, listing : Listings]

\* the image whose pull can go wrong, and what the process running
\* `docker pull` of it does: exits 0, exits 1 (the pull failed), cannot be
\* started; the pulls of the other images exit 0
RedisImage == <<"r", "e", "d", "i", "s", ":", "7">>
PullOutputs ==
    { [spawned |-> TRUE, elapsed |-> 0, status |-> 0, stdout |-> <<"o">>, stderr |-> <<>>],
      [spawned |-> TRUE, elapsed |-> 0, status |-> 1, stdout |-> <<>>, stderr |-> <<>>],
      SpawnFailure }
\* the images whose pull execute_command returns Err for
PullFails(executor, pull_out) ==
    IF execute(executor, pull_out).ok THEN {} ELSE {RedisImage}

NoUpdate ==
    [op |-> "none", dry_run |-> FALSE, server_name |-> <<>>,
     policy_var |-> None, default_var |-> None, specific_var |-> None,
     ps |-> ListErr, installed |-> {}, upgrade_ok |-> <<>>, check |-> CheckErr,
     src |-> [all |-> FALSE, images |-> None, listing |-> ListErr],
     executor |-> LocalServer, pull_out |-> SpawnFailure,
     run |-> Run(<<>>, <<>>, UpdateErr(""))]

\* update_os on a server with the given package managers installed
UpdateOs ==
    /\ upd = NoUpdate
    /\ \E dry_run \in BOOLEAN, installed \in SUBSET {"Apt", "Dnf", "Pacman"},
          upgrade_ok \in [1..2 -> BOOLEAN], check \in CheckResults :
          upd' = [NoUpdate EXCEPT
                    !.op = "os", !.dry_run = dry_run, !.installed = installed,
                    !.upgrade_ok = upgrade_ok, !.check = check,
                    !.run = update_os(dry_run, installed, upgrade_ok, check)]
    /\ UNCHANGED upOther

\* update_docker on a server, under the restart configuration of the process
UpdateDocker ==
    /\ upd = NoUpdate
    /\ \E dry_run \in BOOLEAN, src \in DockerSources,
          executor \in ExecServers, pull_out \in PullOutputs, ps \in PsResults,
          restart_ok \in BOOLEAN, server_name \in UpdateServerNames,
          policy_var \in PolicyValues, default_var \in ExcludeDefaultValues,
          specific_var \in ExcludeValues :
          upd' = [NoUpdate EXCEPT
                  !.op = "docker", !.dry_run = dry_run, !.server_name = server_name,
                  !.policy_var = policy_var, !.default_var = default_var,
                  !.specific_var = specific_var, !.ps = ps, !.src = src,
                  !.executor = executor, !.pull_out = pull_out,
                  !.run = update_docker(src.all, src.images, dry_run, src.listing,
                                        PullFails(executor, pull_out), ps,
                                        restart_ok, server_name,
                                        policy_var, default_var, specific_var)]
    /\ UNCHANGED upOther

IdleUpdater == upd = NoUpdate


(***************************************************************************)
(*              FLEET RUN (updatectl main, updatemon main)                 *)
(***************************************************************************)
MaxFleet == 2

\* the markers of the reports; a marker is one or two code points
Computer == <<"U+1F5A5", "U+FE0F">>
CrossMark == <<"U+274C">>
WarningSign == <<"U+26A0", "U+FE0F">>
CheckMark == <<"U+2705">>
Package == <<"U+1F4E6">>
Whale == <<"U+1F433">>
StrError == <<"E", "r", "r", "o", "r">>

\* a usize written by {}
Digit(d) ==
    CASE d = 0 -> "0" [] d = 1 -> "1" [] d = 2 -> "2" [] d = 3 -> "3"
      [] d = 4 -> "4" [] d = 5 -> "5" [] d = 6 -> "6" [] d = 7 -> "7"
      [] d = 8 -> "8" [] OTHER -> "9"
RECURSIVE FormatNat(_)
FormatNat(n) ==
    IF n < 10 THEN <<Digit(n)>> ELSE FormatNat(n \div 10) \o <<Digit(n % 10)>>

\* [String]::join
RECURSIVE Join(_, _)
Join(strs, sep) ==
    IF strs = <<>> THEN <<>>
    ELSE IF Len(strs) = 1 THEN strs[1]
    ELSE strs[1] \o sep \o Join(Tail(strs), sep)

\* ---- the process inputs ----
Tools == {"updatectl", "updatemon"}
\* the server definitions UPDATE_SERVERS is written from in a fleet run
FleetSpecs == {<<"w", "e", "b", ":", "u", "@", "h">>, <<"b", "o", "x", ":", "u", "@", "h">>}
\* UPDATE_SERVERS (unset reads as the empty string)
FleetServerLists == {JoinComma(ds) : ds \in StrUpTo(FleetSpecs, MaxFleet)}
\* --servers: absent, a configured name, a connection string, an unknown name
FleetServersArgs ==
    {None, Some(<<"w", "e", "b">>), Some(<<"b", "o", "x", ":", "u", "@", "h">>), Some(<<"n", "a", "s">>)}
\* the answer typed at the confirmation prompt
Answers == {<<"y", "\n">>, <<"n", "\n">>}
\* UPDATE_LOCAL_NAME and UPDATE_LOCAL_DISPLAY are unset in the runs modelled
FleetLocalName == None
FleetLocalDisplay == None

\* ---- updatemon's Server (updatemon/src/types.rs) ----
\* Server::local
Server_local_updatemon == [name |-> StrLocalhost, ssh_host |-> None]
\* Server::parse
Server_parse_updatemon(input) ==
    LET parts == Split(input, ":") IN
    IF Len(parts) = 1 THEN
        LET at == Split(parts[1], "@") IN
        ParseOk([name |-> at[Len(at)], ssh_host |-> Some(parts[1])])
    ELSE IF Len(parts) = 2 THEN
        ParseOk([name |-> parts[1], ssh_host |-> Some(parts[2])])
    ELSE ParseErr
\* Server::display_host
display_host_updatemon(server) ==
    IF IsSome(server.ssh_host) THEN Unwrap(server.ssh_host) ELSE StrLocal
\* Server::display_host of updatectl
display_host(server, local_display) ==
    IF server.ssh_host = None
    THEN (IF IsSome(local_display) THEN Unwrap(local_display) ELSE StrLocal)
    ELSE Unwrap(server.ssh_host)

\* Result<Vec<Server>>
ServersOk(servers) == [ok |-> TRUE, servers |-> servers]
ServersErr == [ok |-> FALSE, servers |-> <<>>]

\* parse_servers of updatemon: collect() stops at the first parse error
RECURSIVE ParseEach(_, _)
ParseEach(pieces, acc) ==
    IF pieces = <<>> THEN ServersOk(acc)
    ELSE LET p == Server_parse_updatemon(Trim(Head(pieces))) IN
         IF ~p.ok THEN ServersErr
         ELSE ParseEach(Tail(pieces), Append(acc, p.server))
parse_servers(input) ==
    IF input = <<>> THEN ServersOk(<<>>) ELSE ParseEach(Split(input, ","), <<>>)

\* resolve_servers of updatectl: registry lookup first, then a direct parse
RECURSIVE ResolveEach(_, _, _, _)
ResolveEach(names, map, local_name, acc) ==
    IF names = <<>> THEN ServersOk(acc)
    ELSE LET name == Trim(Head(names)) IN
         IF name \in DOMAIN map
         THEN ResolveEach(Tail(names), map, local_name, Append(acc, map[name]))
         ELSE IF Contains(name, <<"@">>) \/ Contains(name, <<":">>)
         THEN LET p == Server_parse(name, local_name) IN
              IF ~p.ok THEN ServersErr
              ELSE ResolveEach(Tail(names), map, local_name, Append(acc, p.server))
         ELSE ServersErr
resolve_servers(input, map, local_name) ==
    ResolveEach(Split(input, ","), map, local_name, <<>>)

\* the orders HashMap::values() can yield the entries in
ValueOrders(map) ==
    {order \in [1..Cardinality(DOMAIN map) -> DOMAIN map] :
        \A i, j \in DOMAIN order : i # j => order[i] # order[j]}

\* the target list of updatectl: --servers, else the whole registry unless
\* --local; --local appends the local server
updatectl_servers(servers_arg, local, map, order, local_name) ==
    LET first == IF IsSome(servers_arg)
                 THEN resolve_servers(Unwrap(servers_arg), map, local_name)
                 ELSE IF ~local
                 THEN ServersOk([i \in DOMAIN order |-> map[order[i]]])
                 ELSE ServersOk(<<>>)
    IN IF ~first.ok THEN ServersErr
       ELSE IF local
       THEN ServersOk(Append(first.servers, Server_local(local_name)))
       ELSE first

\* the target list of updatemon: --servers or UPDATE_SERVERS, then --local
updatemon_servers(servers_arg, server_env, local) ==
    LET server_str == IF IsSome(servers_arg) THEN Unwrap(servers_arg)
                      ELSE server_env
        first == IF server_str # <<>> THEN parse_servers(server_str)
                 ELSE ServersOk(<<>>)
    IN IF ~first.ok THEN ServersErr
       ELSE IF local
       THEN ServersOk(Append(first.servers, Server_local_updatemon))
       ELSE first

\* ---- the per-server task ----
\* Result<String> of a per-server operation
TaskOk(text) == [ok |-> TRUE, report |-> text]
TaskErr(e) == [ok |-> FALSE, report |-> e]

\* the anyhow errors a per-server operation returns: no package manager
\* detected (detection swallows the errors of its own commands), a later
\* command that could not be started, one that did not answer within 120 s,
\* an ssh answer `Permission denied`
ErrKinds == {"detect", "exec", "timeout", "denied"}
IoError == <<"N", "o", " ", "s", "u", "c", "h", " ", "f", "i", "l", "e", " ", "o", "r", " ", "d", "i", "r", "e", "c", "t", "o", "r", "y", " ", "(", "o", "s", " ", "e", "r", "r", "o", "r", " ", "2", ")">>
SshDenied == <<"P", "e", "r", "m", "i", "s", "s", "i", "o", "n", " ", "d", "e", "n", "i", "e", "d", " ", "(", "p", "u", "b", "l", "i", "c", "k", "e", "y", ")", ".">>
\* a command: the program and its arguments
Command(cmd, args) == [cmd |-> cmd, args |-> args]
\* the text of a word of a command
CommandText(word) ==
    CASE word = "/usr/bin/sudo" -> <<"/", "u", "s", "r", "/", "b", "i", "n", "/", "s", "u", "d", "o">>
      [] word = "apt-get" -> <<"a", "p", "t", "-", "g", "e", "t">>
      [] word = "update" -> <<"u", "p", "d", "a", "t", "e">>
      [] word = "-qq" -> <<"-", "q", "q">>
      [] word = "DEBIAN_FRONTEND=noninteractive" -> <<"D", "E", "B", "I", "A", "N", "_", "F", "R", "O", "N", "T", "E", "N", "D", "=", "n", "o", "n", "i", "n", "t", "e", "r", "a", "c", "t", "i", "v", "e">>
      [] word = "full-upgrade" -> <<"f", "u", "l", "l", "-", "u", "p", "g", "r", "a", "d", "e">>
      [] word = "-y" -> <<"-", "y">>
      [] word = "dnf" -> <<"d", "n", "f">>
      [] word = "upgrade" -> <<"u", "p", "g", "r", "a", "d", "e">>
      [] word = "pacman" -> <<"p", "a", "c", "m", "a", "n">>
      [] word = "-Syu" -> <<"-", "S", "y", "u">>
      [] word = "--noconfirm" -> <<"-", "-", "n", "o", "c", "o", "n", "f", "i", "r", "m">>
      [] word = "/usr/bin/dnf" -> <<"/", "u", "s", "r", "/", "b", "i", "n", "/", "d", "n", "f">>
      [] word = "check-update" -> <<"c", "h", "e", "c", "k", "-", "u", "p", "d", "a", "t", "e">>
      [] word = "--quiet" -> <<"-", "-", "q", "u", "i", "e", "t">>
      [] word = "--cacheonly" -> <<"-", "-", "c", "a", "c", "h", "e", "o", "n", "l", "y">>
      [] word = "/usr/bin/checkupdates" -> <<"/", "u", "s", "r", "/", "b", "i", "n", "/", "c", "h", "e", "c", "k", "u", "p", "d", "a", "t", "e", "s">>
      [] word = "apt" -> <<"a", "p", "t">>
      [] word = "list" -> <<"l", "i", "s", "t">>
      [] word = "--upgradable" -> <<"-", "-", "u", "p", "g", "r", "a", "d", "a", "b", "l", "e">>
      [] word = "/usr/bin/docker" -> <<"/", "u", "s", "r", "/", "b", "i", "n", "/", "d", "o", "c", "k", "e", "r">>
      [] word = "images" -> <<"i", "m", "a", "g", "e", "s">>
      [] word = "--format" -> <<"-", "-", "f", "o", "r", "m", "a", "t">>
      [] word = "{{json .}}" -> <<"{", "{", "j", "s", "o", "n", " ", ".", "}", "}">>
\* `format!("{} {}", cmd, args.join(" "))`
CommandLine(command) ==
    CommandText(command.cmd) \o <<" ">>
        \o Join([i \in DOMAIN command.args |-> CommandText(command.args[i])], <<" ">>)
\* execute_local: `anyhow!("Command timed out after 120s: {} {}", cmd, args.join(" "))`
\* and `anyhow!("Failed to execute {}: {}", cmd, e)`;
\* execute_ssh: `anyhow!("SSH command timed out after 120s to {}", ssh_host)`,
\* `anyhow!("Failed to SSH to {}: {}", ssh_host, e)` and
\* `anyhow!("SSH failed: {}", stderr)`;
\* detect_package_manager: `anyhow!("No supported package manager found on {}", ..)`
error_text(kind, server, command) ==
    IF kind = "detect"
    THEN <<"N", "o", " ", "s", "u", "p", "p", "o", "r", "t", "e", "d", " ", "p", "a", "c", "k", "a", "g", "e", " ", "m", "a", "n", "a", "g", "e", "r", " ", "f", "o", "u", "n", "d", " ", "o", "n", " ">> \o server.name
    ELSE IF server.ssh_host = None
    THEN IF kind = "timeout"
         THEN <<"C", "o", "m", "m", "a", "n", "d", " ", "t", "i", "m", "e", "d", " ", "o", "u", "t", " ", "a", "f", "t", "e", "r", " ", "1", "2", "0", "s", ":", " ">> \o CommandLine(command)
         ELSE <<"F", "a", "i", "l", "e", "d", " ", "t", "o", " ", "e", "x", "e", "c", "u", "t", "e", " ">> \o CommandText(command.cmd) \o <<":", " ">> \o IoError
    ELSE IF kind = "timeout"
    THEN <<"S", "S", "H", " ", "c", "o", "m", "m", "a", "n", "d", " ", "t", "i", "m", "e", "d", " ", "o", "u", "t", " ", "a", "f", "t", "e", "r", " ", "1", "2", "0", "s", " ", "t", "o", " ">> \o Unwrap(server.ssh_host)
    ELSE IF kind = "denied"
    THEN <<"S", "S", "H", " ", "f", "a", "i", "l", "e", "d", ":", " ">> \o SshDenied
    ELSE <<"F", "a", "i", "l", "e", "d", " ", "t", "o", " ", "S", "S", "H", " ", "t", "o", " ">> \o Unwrap(server.ssh_host) \o <<":", " ">> \o IoError

\* the error kinds a server can give: `SSH failed` comes from execute_ssh only
ErrKindsOf(server) ==
    IF server.ssh_host = None THEN ErrKinds \ {"denied"} ELSE ErrKinds

\* the upgrade commands of update_os, all run through sudo
UpgradeCommands ==
    { Command("/usr/bin/sudo", <<"apt-get", "update", "-qq">>),
      Command("/usr/bin/sudo", <<"DEBIAN_FRONTEND=noninteractive", "apt-get", "full-upgrade", "-y">>),
      Command("/usr/bin/sudo", <<"dnf", "upgrade", "-y">>),
      Command("/usr/bin/sudo", <<"pacman", "-Syu", "--noconfirm">>) }

\* the commands update_os runs after detection: the upgrade commands unless
\* dry_run, and the check command of the package manager found
CommandsAfterDetection(dry_run) ==
    (IF dry_run THEN {} ELSE UpgradeCommands)
        \cup {check_command(c) : c \in Checkers}

\* the errors update_os can return on a server
UpdateErrors(dry_run, server) ==
    {error_text(k, server, command) :
        k \in ErrKindsOf(server), command \in CommandsAfterDetection(dry_run)}

\* what update_os returns to execute_update: the dry-run and the applied
\* messages, or an error
UpdateMessages(dry_run) ==
    IF dry_run
    THEN {<<"N", "o", " ", "u", "p", "d", "a", "t", "e", "s", " ", "a", "v", "a", "i", "l", "a", "b", "l", "e">>, <<"1", " ", "p", "a", "c", "k", "a", "g", "e", "s", " ", "w", "o", "u", "l", "d", " ", "b", "e", " ", "u", "p", "d", "a", "t", "e", "d">>}
    ELSE {CheckMark \o <<" ", "U", "p", " ", "t", "o", " ", "d", "a", "t", "e">>,
          WarningSign \o <<" ", "1", " ", "u", "p", "d", "a", "t", "e", "s", " ", "s", "t", "i", "l", "l", " ", "a", "v", "a", "i", "l", "a", "b", "l", "e", " ", "(", "m", "a", "y", " ", "r", "e", "q", "u", "i", "r", "e", " ", "r", "e", "b", "o", "o", "t", " ", "o", "r", " ", "m", "a", "n", "u", "a", "l", " ", "i", "n", "t", "e", "r", "v", "e", "n", "t", "i", "o", "n", ")">>}
UpdateResults(dry_run, server) ==
    {TaskOk(m) : m \in UpdateMessages(dry_run)}
        \cup {TaskErr(e) : e \in UpdateErrors(dry_run, server)}

\* execute_update for `updatectl os`
execute_update(server, dry_run, result, local_display) ==
    LET prefix == IF dry_run THEN <<"[", "D", "R", "Y", "-", "R", "U", "N", "]", " ">> ELSE <<>>
        header == prefix \o Computer \o <<" ", " ">> \o server.name \o <<" ", "(">>
                    \o display_host(server, local_display) \o <<")">>
    IN IF ~result.ok THEN TaskErr(result.report)
       ELSE TaskOk(Join(<<header, <<" ", " ", " ", "O", "S", " ", "U", "p", "d", "a", "t", "e", "s", ":", " ">> \o result.report>>, <<"\n">>))

\* what check_server observes on a server: the package manager found, the
\* pending updates, and the outcome of the Docker image check
Probe(err, updates, docker, images, with_update) ==
    [err |-> err, updates |-> updates, docker |-> docker,
     images |-> images, with_update |-> with_update]
CheckProbes ==
    { Probe("detect", 0, "ok", 0, 0),
      Probe("exec", 0, "ok", 0, 0),
      Probe("denied", 0, "ok", 0, 0),
      Probe("timeout", 0, "ok", 0, 0),
      Probe("none", 0, "ok", 0, 0),
      Probe("none", 0, "ok", 1, 0),
      Probe("none", 1, "ok", 1, 1),
      Probe("none", 0, "error", 0, 0),
      Probe("none", 0, "timeout", 0, 0) }
\* what a server can show: `SSH failed` needs an ssh server
ProbesOf(server) == {probe \in CheckProbes : probe.err \in ErrKindsOf(server) \cup {"none"}}
PackageName == <<"v", "i", "m">>
ImageName == <<"n", "g", "i", "n", "x", ":", "l", "a", "t", "e", "s", "t", " ", "(", "u", "p", "d", "a", "t", "e", " ", "a", "v", "a", "i", "l", "a", "b", "l", "e", ")">>
\* AptChecker::check_command of updatemon
AptCheckCommand == Command("apt", <<"list", "--upgradable">>)
\* the command of check_docker_updates
DockerImagesCommand == Command("/usr/bin/docker", <<"images", "--format", "{{json .}}">>)
\* the error check_docker_updates returns, that of the executor: the probe
\* `error` is a docker binary that cannot be started on a local server and an
\* ssh answer `Permission denied` on a remote one
DockerError(server, docker) ==
    error_text(IF docker # "error" THEN docker
               ELSE IF server.ssh_host = None THEN "exec" ELSE "denied",
               server, DockerImagesCommand)

\* iter().take(5) over n equal lines
TakeLines(n, line) == [i \in 1..(IF n < 5 THEN n ELSE 5) |-> line]

\* check_server of updatemon
check_server(server, check_docker, probe) ==
    LET header == Computer \o <<" ", " ">> \o server.name \o <<" ", "(">>
                    \o display_host_updatemon(server) \o <<")">>
        pm_line == <<" ", " ", " ", "P", "a", "c", "k", "a", "g", "e", " ", "M", "a", "n", "a", "g", "e", "r", ":", " ", "A", "P", "T", " ", "(", "D", "e", "b", "i", "a", "n", "/", "U", "b", "u", "n", "t", "u", ")">>
        os_lines ==
            IF probe.updates = 0
            THEN <<<<" ", " ", " ", "O", "S", ":", " ">> \o CheckMark \o <<" ", "U", "p", " ", "t", "o", " ", "d", "a", "t", "e">>>>
            ELSE <<<<" ", " ", " ", "O", "S", ":", " ">> \o Package \o <<" ">> \o FormatNat(probe.updates)
                        \o <<" ", "u", "p", "d", "a", "t", "e", "s", " ", "a", "v", "a", "i", "l", "a", "b", "l", "e">>>>
                 \o TakeLines(probe.updates, <<" ", " ", " ", " ", " ", " ", "-", " ">> \o PackageName)
                 \o (IF probe.updates > 5
                     THEN <<<<" ", " ", " ", " ", " ", " ", ".", ".", ".", " ", "a", "n", "d", " ">> \o FormatNat(probe.updates - 5)
                                \o <<" ", "m", "o", "r", "e">>>>
                     ELSE <<>>)
        remaining == IF probe.with_update > 5 THEN probe.with_update - 5 ELSE 0
        docker_lines ==
            IF ~check_docker THEN <<>>
            ELSE IF probe.docker # "ok"
            THEN <<<<" ", " ", " ", "D", "o", "c", "k", "e", "r", ":", " ">> \o WarningSign \o <<" ", " ", "E", "r", "r", "o", "r", ":", " ">> \o DockerError(server, probe.docker)>>
            ELSE IF probe.images = 0
            THEN <<<<" ", " ", " ", "D", "o", "c", "k", "e", "r", ":", " ", "N", "o", " ", "i", "m", "a", "g", "e", "s", " ", "f", "o", "u", "n", "d">>>>
            ELSE IF probe.with_update > 0
            THEN <<<<" ", " ", " ", "D", "o", "c", "k", "e", "r", ":", " ">> \o Whale \o <<" ">> \o FormatNat(probe.with_update)
                        \o <<" ", "o", "f", " ">> \o FormatNat(probe.images)
                        \o <<" ", "i", "m", "a", "g", "e", "s", " ", "w", "i", "t", "h", " ", "u", "p", "d", "a", "t", "e", "s">>>>
                 \o TakeLines(probe.with_update, <<" ", " ", " ", " ", " ", " ", "-", " ">> \o ImageName)
                 \o (IF remaining > 0
                     THEN <<<<" ", " ", " ", " ", " ", " ", ".", ".", ".", " ", "a", "n", "d", " ">> \o FormatNat(remaining)
                                \o <<" ", "m", "o", "r", "e", " ", "w", "i", "t", "h", " ", "u", "p", "d", "a", "t", "e", "s">>>>
                     ELSE <<>>)
            ELSE <<<<" ", " ", " ", "D", "o", "c", "k", "e", "r", ":", " ">> \o CheckMark \o <<" ">> \o FormatNat(probe.images)
                        \o <<" ", "i", "m", "a", "g", "e", "s", " ", "u", "p", " ", "t", "o", " ", "d", "a", "t", "e">>>>
    IN IF probe.err # "none" THEN TaskErr(error_text(probe.err, server, AptCheckCommand))
       ELSE TaskOk(Join(<<header, pm_line>> \o os_lines \o docker_lines, <<"\n">>))

\* the spawned task: the report, or the error line of the server
task_report(server, result) ==
    IF result.ok THEN result.report
    ELSE CrossMark \o <<" ">> \o server.name \o <<" ", "-", " ", "E", "r", "r", "o", "r", ":", " ">> \o result.report

\* ---- the summary ----
AnyReport(reports, needle) == \E i \in DOMAIN reports : Contains(reports[i], needle)

\* format_summary of updatectl
format_summary(reports, dry_run) ==
    LET prefix == IF dry_run THEN <<"[", "D", "R", "Y", "-", "R", "U", "N", "]", " ">> ELSE <<>>
        count == FormatNat(Len(reports))
    IN IF AnyReport(reports, StrError)
       THEN prefix \o WarningSign \o <<" ", " ", "U", "p", "d", "a", "t", "e", "s", " ", "c", "o", "m", "p", "l", "e", "t", "e", "d", " ", "w", "i", "t", "h", " ", "e", "r", "r", "o", "r", "s", " ", "(">>
                \o count \o <<" ", "s", "e", "r", "v", "e", "r", "s", ")">>
       ELSE prefix \o CheckMark \o <<" ", "U", "p", "d", "a", "t", "e", "s", " ", "c", "o", "m", "p", "l", "e", "t", "e", "d", " ", "s", "u", "c", "c", "e", "s", "s", "f", "u", "l", "l", "y", " ", "(">>
                \o count \o <<" ", "s", "e", "r", "v", "e", "r", "s", ")">>

\* format_summary of updatemon
format_summary_updatemon(reports) ==
    LET count == FormatNat(Len(reports)) IN
    IF AnyReport(reports, Package)
    THEN Package \o <<" ", "U", "p", "d", "a", "t", "e", "s", " ", "a", "v", "a", "i", "l", "a", "b", "l", "e", " ", "(">> \o count \o <<" ", "s", "e", "r", "v", "e", "r", "s", ")">>
    ELSE CheckMark \o <<" ", "A", "l", "l", " ", "s", "y", "s", "t", "e", "m", "s", " ", "u", "p", " ", "t", "o", " ", "d", "a", "t", "e", " ", "(">> \o count \o <<" ", "s", "e", "r", "v", "e", "r", "s", ")">>

\* ---- the run ----
\* what `task.await` gives for a task that panicked or was cancelled
TaskJoinError == [joined |-> FALSE, ok |-> FALSE, report |-> <<>>]

NoFleet ==
    [pc |-> "idle", tool |-> "", server_env |-> <<>>, servers_arg |-> None,
     local |-> FALSE, dry_run |-> FALSE, prompted |-> FALSE,
     servers |-> <<>>, results |-> <<>>, awaited |-> 0,
     all_reports |-> <<>>, summary |-> <<>>, details |-> <<>>, exit |-> "none"]

\* process::exit(1) after the usage text, main returning Err, main returning Ok
Exited(f, how) == [f EXCEPT !.pc = "exited", !.exit = how]
\* the tasks are spawned, none has finished
Spawned(f, servers) ==
    [f EXCEPT !.pc = "running", !.servers = servers,
              !.results = [i \in DOMAIN servers |-> None]]

\* updatectl main up to the spawn of the per-server tasks
UpdatectlStarts ==
    /\ fleet.pc = "idle"
    /\ \E server_env \in FleetServerLists, servers_arg \in FleetServersArgs,
          local \in BOOLEAN, dry_run \in BOOLEAN, yes \in BOOLEAN,
          answer \in Answers :
          LET f == [NoFleet EXCEPT !.tool = "updatectl", !.server_env = server_env,
                                   !.servers_arg = servers_arg, !.local = local,
                                   !.dry_run = dry_run]
              \* `print!("Continue? [y/N] ")` and the read of the answer
              asked == [f EXCEPT !.prompted = TRUE]
              built == build_server_registry(server_env, FleetLocalName)
          IN IF ~built.ok THEN fleet' = Exited(f, "error")
             ELSE \E order \in ValueOrders(built.registry) :
                  LET targets == updatectl_servers(servers_arg, local, built.registry,
                                                   order, FleetLocalName)
                  IN fleet' =
                       IF ~targets.ok THEN Exited(f, "error")
                       ELSE IF targets.servers = <<>> THEN Exited(f, "usage")
                       ELSE IF ~yes /\ ~dry_run
                       THEN IF ~eq_ignore_ascii_case(Trim(answer), <<"y">>)
                            THEN Exited(asked, "ok")
                            ELSE Spawned(asked, targets.servers)
                       ELSE Spawned(f, targets.servers)
    /\ UNCHANGED flOther

\* updatemon main up to the spawn of the per-server tasks
UpdatemonStarts ==
    /\ fleet.pc = "idle"
    /\ \E server_env \in FleetServerLists, servers_arg \in FleetServersArgs,
          local \in BOOLEAN :
          LET f == [NoFleet EXCEPT !.tool = "updatemon", !.server_env = server_env,
                                   !.servers_arg = servers_arg, !.local = local]
              targets == updatemon_servers(servers_arg, server_env, local)
          IN fleet' =
               IF ~targets.ok THEN Exited(f, "error")
               ELSE IF targets.servers = <<>> THEN Exited(f, "usage")
               ELSE Spawned(f, targets.servers)
    /\ UNCHANGED flOther

\* a spawned task runs to its end, whatever the other tasks do
TaskCompletes ==
    /\ fleet.pc = "running"
    /\ \E i \in DOMAIN fleet.servers :
          /\ fleet.results[i] = None
          /\ LET server == fleet.servers[i] IN
             \E result \in
                 IF fleet.tool = "updatectl"
                 THEN {execute_update(server, fleet.dry_run, r, FleetLocalDisplay) :
                          r \in UpdateResults(fleet.dry_run, server)}
                 ELSE {check_server(server, TRUE, probe) : probe \in ProbesOf(server)} :
                fleet' = [fleet EXCEPT !.results[i] =
                            Some([joined |-> TRUE, ok |-> result.ok,
                                  report |-> task_report(server, result)])]
    /\ UNCHANGED flOther

\* a spawned task ends without a report: it panicked or was cancelled, and
\* its JoinHandle will give Err(JoinError)
TaskAborts ==
    /\ fleet.pc = "running"
    /\ \E i \in DOMAIN fleet.servers :
          /\ fleet.results[i] = None
          /\ fleet' = [fleet EXCEPT !.results[i] = Some(TaskJoinError)]
    /\ UNCHANGED flOther

\* `for task in tasks { match task.await { Ok(report) => all_reports.push(report),
\* Err(e) => error!(..) } }`: the tasks are awaited in spawn order; the report
\* of a joined task is pushed, a JoinError is logged and nothing is pushed
AwaitTask ==
    /\ fleet.pc = "running"
    /\ fleet.awaited < Len(fleet.servers)
    /\ LET i == fleet.awaited + 1 IN
          /\ fleet.results[i] # None
          /\ fleet' = [fleet EXCEPT
                          !.awaited = i,
                          !.all_reports =
                              IF Unwrap(fleet.results[i]).joined
                              THEN Append(@, Unwrap(fleet.results[i]).report)
                              ELSE @]
    /\ UNCHANGED flOther

\* the summary and the details are formatted from the collected reports
Summarise ==
    /\ fleet.pc = "running"
    /\ fleet.awaited = Len(fleet.servers)
    /\ fleet' = [fleet EXCEPT
                   !.pc = "done",
                   !.summary = IF fleet.tool = "updatectl"
                               THEN format_summary(fleet.all_reports, fleet.dry_run)
                               ELSE format_summary_updatemon(fleet.all_reports),
                   !.details = Join(fleet.all_reports, <<"\n", "\n">>),
                   !.exit = "ok"]
    /\ UNCHANGED flOther

IdleFleet == fleet = NoFleet


(***************************************************************************)
(*        NOTIFICATION ACTION BUTTONS (updatemon, dockermon cleanup)       *)
(***************************************************************************)
\* UPDATECTL_WEBHOOK_SECRET as the process finds it: unset, empty, set
WebhookSecrets == {None, Some(<<>>), Some(<<"s", "3">>), Some(<<"a", " ", "b">>)}
\* UPDATECTL_WEBHOOK_URL is unset in the runs modelled
WebhookUrlEnv == None
\* the servers the notifications are about
NoticeServers ==
    { [name |-> <<"w", "e", "b">>, ssh_host |-> Some(<<"u", "@", "h">>)],
      [name |-> <<"m", "y", " ", "b", "o", "x">>, ssh_host |-> Some(<<"u", "@", "h">>)] }

\* what check_server finds on a server of a notification run
NoticeProbes ==
    { Probe("detect", 0, "ok", 0, 0), Probe("denied", 0, "ok", 0, 0),
      Probe("none", 0, "ok", 1, 0), Probe("none", 1, "ok", 1, 1),
      Probe("none", 0, "error", 0, 0) }

\* urlencoding::encode: unreserved characters stay, the others are
\* percent-encoded
EncodeChar(c) ==
    CASE c = " " -> <<"%", "2", "0">>
      [] c = ":" -> <<"%", "3", "A">>
      [] c = "@" -> <<"%", "4", "0">>
      [] c = "&" -> <<"%", "2", "6">>
      [] c = "=" -> <<"%", "3", "D">>
      [] OTHER -> <<c>>
urlencoding_encode(str) == Flatten([i \in DOMAIN str |-> EncodeChar(str[i])])

\* NtfyAction::http_post
http_post(label, url) ==
    [action |-> "http", label |-> label, url |-> Some(url), method |-> Some("POST")]

\* env::var(..).unwrap_or_default()
unwrap_or_default(var) == IF IsSome(var) THEN Unwrap(var) ELSE <<>>
\* env::var(..).unwrap_or_else(|_| default)
unwrap_or(var, default) == IF IsSome(var) THEN Unwrap(var) ELSE default

\* Mutant: the buttons are generated whatever the secret is.
generate_server_action_buttons_always(text, server, url_env, secret_env) ==
    LET webhook_url == unwrap_or(url_env, <<"h", "t", "t", "p", ":", "/", "/", "u", "p", "d", "a", "t", "e", "c", "t", "l", "_", "w", "e", "b", "h", "o", "o", "k", ":", "8", "0", "8", "0">>)
        query == <<"?", "s", "e", "r", "v", "e", "r", "=">> \o urlencoding_encode(server.name) \o <<"&", "t", "o", "k", "e", "n", "=">>
                    \o urlencoding_encode(unwrap_or_default(secret_env))
    IN (IF Contains(text, Package) /\ Contains(text, <<"O", "S", ":">>)
        THEN <<http_post("Update OS", webhook_url \o <<"/", "w", "e", "b", "h", "o", "o", "k", "/", "u", "p", "d", "a", "t", "e", "/", "o", "s">> \o query)>>
        ELSE <<>>)
       \o (IF Contains(text, Whale) /\ Contains(text, <<"D", "o", "c", "k", "e", "r", ":">>)
           THEN <<http_post("Update Docker",
                            webhook_url \o <<"/", "w", "e", "b", "h", "o", "o", "k", "/", "u", "p", "d", "a", "t", "e", "/", "d", "o", "c", "k", "e", "r", "/", "a", "l", "l">> \o query)>>
           ELSE <<>>)

\* generate_server_action_buttons of updatemon
generate_server_action_buttons(text, server, url_env, secret_env) ==
    LET webhook_url == unwrap_or(url_env, <<"h", "t", "t", "p", ":", "/", "/", "u", "p", "d", "a", "t", "e", "c", "t", "l", "_", "w", "e", "b", "h", "o", "o", "k", ":", "8", "0", "8", "0">>)
        webhook_secret == unwrap_or_default(secret_env)
        has_os_updates == Contains(text, Package) /\ Contains(text, <<"O", "S", ":">>)
        has_docker_updates == Contains(text, Whale) /\ Contains(text, <<"D", "o", "c", "k", "e", "r", ":">>)
        query == <<"?", "s", "e", "r", "v", "e", "r", "=">> \o urlencoding_encode(server.name) \o <<"&", "t", "o", "k", "e", "n", "=">>
                    \o urlencoding_encode(webhook_secret)
    IN IF webhook_secret = <<>> THEN <<>>
       ELSE (IF has_os_updates
             THEN <<http_post("Update OS",
                              webhook_url \o <<"/", "w", "e", "b", "h", "o", "o", "k", "/", "u", "p", "d", "a", "t", "e", "/", "o", "s">> \o query)>>
             ELSE <<>>)
            \o (IF has_docker_updates
                THEN <<http_post("Update Docker",
                                 webhook_url \o <<"/", "w", "e", "b", "h", "o", "o", "k", "/", "u", "p", "d", "a", "t", "e", "/", "d", "o", "c", "k", "e", "r", "/", "a", "l", "l">> \o query)>>
                ELSE <<>>)

\* a message handed to ntfy: sent or not, its title, what its body is
\* formatted from, and its actions (None: no actions field)
Notice(tool, secret_env, sent, title, about, actions) ==
    [tool |-> tool, secret_env |-> secret_env, sent |-> sent, title |-> title,
     about |-> about, actions |-> actions]
NoNotice == Notice("", None, FALSE, <<>>, <<>>, None)

\* summary mode: `send_ntfy_updatemon(&client, &summary, notification_body, None)`,
\* one message about all the reports, without actions
updatemon_summary_ntfy(reports, secret_env) ==
    Notice("updatemon", secret_env, TRUE, format_summary_updatemon(reports),
           reports, None)

\* detailed mode, the body of the loop of send_ntfy_per_server: the ntfy
\* message about one report, none when the report shows no updates
updatemon_ntfy(text, server, url_env, secret_env) ==
    LET has_os_updates == Contains(text, Package) /\ Contains(text, <<"O", "S", ":">>)
        has_docker_updates == Contains(text, Whale) /\ Contains(text, <<"D", "o", "c", "k", "e", "r", ":">>)
        update_types == (IF has_os_updates THEN <<<<"O", "S">>>> ELSE <<>>)
                           \o (IF has_docker_updates
                               THEN <<<<"D", "o", "c", "k", "e", "r">>>> ELSE <<>>)
        title == server.name \o <<" ", "-", " ">> \o Join(update_types, <<" ", "+", " ">>)
                    \o <<" ", "u", "p", "d", "a", "t", "e", "s", " ", "a", "v", "a", "i", "l", "a", "b", "l", "e">>
    IN IF ~has_os_updates /\ ~has_docker_updates
       THEN Notice("updatemon", secret_env, FALSE, <<>>, text, None)
       ELSE Notice("updatemon", secret_env, TRUE, title, text,
                   Some(generate_server_action_buttons(text, server, url_env,
                                                       secret_env)))

\* Vec::truncate
Truncate(seq, n) == IF Len(seq) > n THEN SubSeq(seq, 1, n) ELSE seq

\* the counts of a cleanup analysis the buttons depend on
CleanupCounts ==
    [total_reclaimable_bytes : 0..1, dangling_images : 0..1,
     unused_networks : 0..1, unused_images : 0..1]

\* the ntfy actions of run_cleanup_for_server
cleanup_ntfy_actions(counts, cleanup_was_executed, server, url_env, secret_env) ==
    IF ~cleanup_was_executed /\ counts.total_reclaimable_bytes > 0
    THEN LET webhook_url == unwrap_or(url_env, <<"h", "t", "t", "p", ":", "/", "/", "l", "o", "c", "a", "l", "h", "o", "s", "t", ":", "8", "0", "8", "0">>)
             webhook_secret == unwrap_or(secret_env, <<"y", "o", "u", "r", "_", "s", "e", "c", "r", "e", "t", "_", "t", "o", "k", "e", "n">>)
             query == <<"?", "s", "e", "r", "v", "e", "r", "=">> \o urlencoding_encode(server.name) \o <<"&", "t", "o", "k", "e", "n", "=">>
                         \o urlencoding_encode(webhook_secret)
             safe == IF counts.dangling_images > 0 \/ counts.unused_networks > 0
                     THEN <<http_post("Safe Cleanup",
                                webhook_url \o <<"/", "w", "e", "b", "h", "o", "o", "k", "/", "c", "l", "e", "a", "n", "u", "p", "/", "s", "a", "f", "e">> \o query)>>
                     ELSE <<>>
             prune == IF counts.unused_images > 0
                      THEN <<http_post("Prune Unused Images",
                                 webhook_url \o <<"/", "w", "e", "b", "h", "o", "o", "k", "/", "c", "l", "e", "a", "n", "u", "p", "/", "i", "m", "a", "g", "e", "s", "/", "p", "r", "u", "n", "e", "-", "u", "n", "u", "s", "e", "d">>
                                     \o query)>>
                      ELSE <<>>
         IN Some(Truncate(safe \o prune, 3))
    ELSE None

\* the title of the cleanup notification
cleanup_title(server, cleanup_was_executed) ==
    server.name \o (IF cleanup_was_executed
                    THEN <<" ", "-", " ", "D", "o", "c", "k", "e", "r", " ", "C", "l", "e", "a", "n", "u", "p", ":", " ", "C", "o", "m", "p", "l", "e", "t", "e">>
                    ELSE <<" ", "-", " ", "D", "o", "c", "k", "e", "r", " ", "C", "l", "e", "a", "n", "u", "p", ":", " ", "A", "n", "a", "l", "y", "s", "i", "s">>)

\* the title of the notification sent when run_cleanup_for_server fails
cleanup_error_title(server) ==
    server.name \o <<" ", "-", " ", "D", "o", "c", "k", "e", "r", " ", "C", "l", "e", "a", "n", "u", "p", ":", " ", "E", "r", "r", "o", "r">>

\* what the analysis of a server gives: Err, or the report with its counts
CleanupAnalysisErr == [ok |-> FALSE, counts |-> <<>>]
CleanupAnalysisOk(counts) == [ok |-> TRUE, counts |-> counts]
CleanupAnalysisOutcomes == {CleanupAnalysisErr} \cup {CleanupAnalysisOk(c) : c \in CleanupCounts}

\* the body of the loop of run_cleanup for one server: the ntfy message of
\* run_cleanup_for_server, or the error message of the caller when it
\* returned Err (the analysis failed, or execution was asked on a server
\* that is not local)
dockermon_ntfy(server, execute_safe, prune_unused, analysis, url_env, secret_env) ==
    LET cleanup_was_executed == execute_safe \/ prune_unused
        error == Notice("dockermon", secret_env, TRUE, cleanup_error_title(server),
                        <<"e">>, None)
    IN IF ~analysis.ok THEN error
       ELSE IF execute_safe /\ ~is_local(server) THEN error
       ELSE IF prune_unused /\ ~is_local(server) THEN error
       ELSE Notice("dockermon", secret_env, TRUE,
                   cleanup_title(server, cleanup_was_executed), analysis.counts,
                   cleanup_ntfy_actions(analysis.counts, cleanup_was_executed,
                                        server, url_env, secret_env))

\* the servers of an updatemon run: one or two different servers
NoticeTargets ==
    {<<s>> : s \in NoticeServers}
        \cup {p \in NoticeServers \X NoticeServers : p[1] # p[2]}
\* the servers of a dockermon cleanup run: those of --servers, or the local one
DockermonServers == NoticeServers \cup {Server_local(None)}

\* updatemon, after every task has given its report (the report of
\* check_server, or the error line of the server), sends to ntfy: in summary
\* mode one message about all servers, in detailed mode the message of a
\* server
UpdatemonNotifies ==
    /\ notice = NoNotice
    /\ \E servers \in NoticeTargets, summary_mode \in BOOLEAN,
          secret_env \in WebhookSecrets :
       \E probes \in [DOMAIN servers -> NoticeProbes] :
          LET all_reports ==
                [i \in DOMAIN servers |->
                    task_report(servers[i], check_server(servers[i], TRUE, probes[i]))]
          IN IF summary_mode
             THEN notice' = updatemon_summary_ntfy(all_reports, secret_env)
             ELSE \E i \in DOMAIN servers :
                     notice' = updatemon_ntfy(all_reports[i], servers[i],
                                              WebhookUrlEnv, secret_env)
    /\ UNCHANGED ntOther

\* dockermon sends the ntfy message of a cleanup run on one server
DockermonNotifies ==
    /\ notice = NoNotice
    /\ \E server \in DockermonServers, execute_safe \in BOOLEAN,
          prune_unused \in BOOLEAN, analysis \in CleanupAnalysisOutcomes,
          secret_env \in WebhookSecrets :
          notice' = dockermon_ntfy(server, execute_safe, prune_unused,
                                   analysis, WebhookUrlEnv, secret_env)
    /\ UNCHANGED ntOther

IdleNotice == notice = NoNotice


(***************************************************************************)
(*            IMAGE UPDATE CHECK (updatemon check_image_update)            *)
(***************************************************************************)
\* ---- serde_json::Value ----
JNull == [kind |-> "null"]
JNumber(n) == [kind |-> "number", n |-> n]
JString(str) == [kind |-> "string", str |-> str]
JArray(items) == [kind |-> "array", items |-> items]
JObject(fields) == [kind |-> "object", fields |-> fields]
\* Value::get(key): a member of an object, None on any other value
JGet(value, key) ==
    IF value.kind = "object" /\ key \in DOMAIN value.fields
    THEN Some(value.fields[key]) ELSE None
\* Value::as_str
as_str(value) == IF value.kind = "string" THEN Some(value.str) ELSE None
\* Value::as_array
as_array(value) == IF value.kind = "array" THEN Some(value.items) ELSE None
\* slice::first
first(items) == IF items = <<>> THEN None ELSE Some(items[1])
\* Option::and_then
and_then(opt, F(_)) == IF IsSome(opt) THEN F(Unwrap(opt)) ELSE None

DigestA == <<"s", "h", "a", "2", "5", "6", ":", "a">>
DigestB == <<"s", "h", "a", "2", "5", "6", ":", "b">>
Digests == {DigestA, DigestB}

\* what `docker inspect --format={{index .RepoDigests 0}}` returns, with the
\* digest the output carries: a command error, no digest, a value without
\* `@`, a RepoDigest
InspectErr == [ok |-> FALSE, text |-> <<>>, digest |-> None]
InspectOk(text, digest) == [ok |-> TRUE, text |-> text, digest |-> digest]
LocalOutputs ==
    { InspectErr,
      InspectOk(<<>>, None),
      InspectOk(<<"\n">>, None),
      InspectOk(<<"<", "n", "o", " ", "v", "a", "l", "u", "e", ">", "\n">>, None),
      InspectOk(<<"n", "g", "i", "n", "x", "\n">>, None) }
    \cup {InspectOk(<<"n", "g", "i", "n", "x", "@">> \o d \o <<"\n">>, Some(d)) : d \in Digests}
    \cup {InspectOk(<<" ", "n", "g", "i", "n", "x", "@">> \o d, Some(d)) : d \in Digests}

\* what `docker manifest inspect` returns, with the digest the manifest
\* carries: a failed fetch, text that is no JSON, manifests without a
\* digest, image manifests, manifest lists
FetchErr == [ok |-> FALSE, json |-> None, digest |-> None]
FetchOk(json, digest) == [ok |-> TRUE, json |-> json, digest |-> digest]
ImageManifest(d) == JObject([config |-> JObject([digest |-> JString(d)])])
ManifestList(ds) ==
    JObject([manifests |-> JArray([i \in DOMAIN ds |-> JObject([digest |-> JString(ds[i])])])])
RemoteOutputs ==
    { FetchErr,
      FetchOk(None, None),
      FetchOk(Some(JObject([schemaVersion |-> JNumber(2)])), None),
      FetchOk(Some(JObject([config |-> JObject([size |-> JNumber(7)])])), None),
      FetchOk(Some(JObject([config |-> JObject([digest |-> JNull])])), None),
      FetchOk(Some(JObject([config |-> JString(DigestB)])), None),
      FetchOk(Some(JObject([manifests |-> JArray(<<>>)])), None),
      FetchOk(Some(JArray(<<JString(DigestB)>>)), None) }
    \cup {FetchOk(Some(ImageManifest(d)), Some(d)) : d \in Digests}
    \cup {FetchOk(Some(ManifestList(<<d, e>>)), Some(d)) : d \in Digests, e \in Digests}

\* Result<bool>
BoolOk(b) == [ok |-> TRUE, value |-> b]
BoolErr == [ok |-> FALSE, value |-> FALSE]

GetDigestStr(value) == and_then(JGet(value, "digest"), as_str)
FirstDigest(items) == and_then(first(items), GetDigestStr)
ManifestsDigest(manifest) ==
    and_then(and_then(JGet(manifest, "manifests"), as_array), FirstDigest)
\* config.digest, or else the digest of the first entry of manifests
remote_digest_of(manifest) ==
    LET config == and_then(JGet(manifest, "config"), GetDigestStr) IN
    IF IsSome(config) THEN config ELSE ManifestsDigest(manifest)

\* Mutant: a manifest that cannot be fetched or read counts as an update.
check_image_update_assume_update(local_output, remote_output) ==
    IF ~local_output.ok THEN BoolErr
    ELSE LET local_repo_digest == Trim(local_output.text) IN
         IF local_repo_digest = <<>> \/ local_repo_digest = <<"<", "n", "o", " ", "v", "a", "l", "u", "e", ">">>
         THEN BoolOk(FALSE)
         ELSE LET at == Split(local_repo_digest, "@") IN
              IF Len(at) < 2 THEN BoolOk(FALSE)
              ELSE IF ~remote_output.ok \/ remote_output.json = None THEN BoolOk(TRUE)
              ELSE LET remote_digest == remote_digest_of(Unwrap(remote_output.json)) IN
                   IF IsSome(remote_digest) THEN BoolOk(Unwrap(remote_digest) # at[2])
                   ELSE BoolOk(TRUE)

\* check_image_update
check_image_update(local_output, remote_output) ==
    IF ~local_output.ok THEN BoolErr
    ELSE LET local_repo_digest == Trim(local_output.text) IN
         IF local_repo_digest = <<>> \/ local_repo_digest = <<"<", "n", "o", " ", "v", "a", "l", "u", "e", ">">>
         THEN BoolOk(FALSE)
         ELSE LET at == Split(local_repo_digest, "@") IN
              IF Len(at) < 2 THEN BoolOk(FALSE)
              ELSE LET local_digest == at[2] IN
                   IF ~remote_output.ok THEN BoolOk(FALSE)
                   ELSE IF remote_output.json = None THEN BoolOk(FALSE)
                   ELSE LET remote_digest == remote_digest_of(Unwrap(remote_output.json)) IN
                        IF IsSome(remote_digest)
                        THEN BoolOk(Unwrap(remote_digest) # local_digest)
                        ELSE BoolOk(FALSE)

\* has_update as check_docker_updates sets it: false on an error
has_update_of(checked) == IF checked.ok THEN checked.value ELSE FALSE

NoImageCheck ==
    [checked |-> FALSE, local_output |-> InspectErr, remote_output |-> FetchErr,
     result |-> BoolErr, has_update |-> FALSE]

\* check_docker_updates checks one listed image
CheckImage ==
    /\ imgchk = NoImageCheck
    /\ \E local_output \in LocalOutputs, remote_output \in RemoteOutputs :
          LET checked == check_image_update(local_output, remote_output) IN
          imgchk' = [checked |-> TRUE, local_output |-> local_output,
                     remote_output |-> remote_output, result |-> checked,
                     has_update |-> has_update_of(checked)]
    /\ UNCHANGED icOther

IdleImageCheck == imgchk = NoImageCheck


(***************************************************************************)
(*                 RETRY (retry_async, retry_async_when)                   *)
(***************************************************************************)
DEFAULT_MAX_RETRIES == 3
RETRY_MIN_DELAY_MS == 100
RETRY_MAX_DELAY_MS == 30000

\* the errors an operation returns, and Ok
RetryErrors == {"temporary error", "persistent error", "non-retryable error"}
AttemptOutcomes == {"ok"} \cup RetryErrors
\* the two entry points; retry_async_when is given the predicate of its
\* documentation, which accepts the temporary error only
RetryModes == {"retry_async", "retry_async_when"}
should_retry(mode, err) == mode = "retry_async" \/ err = "temporary error"

RECURSIVE Pow2(_)
Pow2(k) == IF k = 0 THEN 1 ELSE 2 * Pow2(k - 1)

\* Mutant: the backoff yields one delay more.
next_delay_one_more(retries) ==
    IF retries <= DEFAULT_MAX_RETRIES
    THEN Some(IF RETRY_MIN_DELAY_MS * Pow2(retries) > RETRY_MAX_DELAY_MS
              THEN RETRY_MAX_DELAY_MS ELSE RETRY_MIN_DELAY_MS * Pow2(retries))
    ELSE None

\* default_backoff: with_max_times(DEFAULT_MAX_RETRIES) yields that many
\* delays, doubling from the minimum and capped at the maximum
next_delay(retries) ==
    IF retries < DEFAULT_MAX_RETRIES
    THEN Some(IF RETRY_MIN_DELAY_MS * Pow2(retries) > RETRY_MAX_DELAY_MS
              THEN RETRY_MAX_DELAY_MS ELSE RETRY_MIN_DELAY_MS * Pow2(retries))
    ELSE None

NoRetry ==
    [pc |-> "idle", mode |-> "", history |-> <<>>, retries |-> 0,
     slept_ms |-> 0, result |-> ""]

\* retry_async(operation) / retry_async_when(operation, should_retry)
RetryCalled ==
    /\ retry = NoRetry
    /\ \E mode \in RetryModes : retry' = [NoRetry EXCEPT !.pc = "call", !.mode = mode]
    /\ UNCHANGED rtOther

\* one call of the operation: Ok is returned at once; an error the predicate
\* rejects, or one after the last delay, is returned; otherwise the error is
\* notified and the next delay is slept
RetryAttempt ==
    /\ retry.pc = "call"
    /\ \E outcome \in AttemptOutcomes :
          LET history == Append(retry.history, outcome)
              delay == next_delay(retry.retries)
          IN retry' =
               IF outcome = "ok"
               THEN [retry EXCEPT !.pc = "returned", !.history = history,
                                  !.result = "ok"]
               ELSE IF ~should_retry(retry.mode, outcome) \/ delay = None
               THEN [retry EXCEPT !.pc = "returned", !.history = history,
                                  !.result = outcome]
               ELSE [retry EXCEPT !.pc = "sleep", !.history = history]
    /\ UNCHANGED rtOther

\* tokio::time::sleep(dur) ends
RetrySleepEnds ==
    /\ retry.pc = "sleep"
    /\ retry' = [retry EXCEPT !.pc = "call", !.retries = @ + 1,
                              !.slept_ms = @ + Unwrap(next_delay(retry.retries))]
    /\ UNCHANGED rtOther

IdleRetry == retry = NoRetry


(***************************************************************************)
(*     CLEANUP RESULT (execute_safe_cleanup, execute_unused_image_cleanup) *)
(***************************************************************************)
MaxRemoved == 1
\* bytes a prune step reports as reclaimed
ReclaimedSizes == {0, 7}

\* what a prune step returns: Err, or Ok(PruneStats { count, space_reclaimed })
PruneErr == [ok |-> FALSE, count |-> 0, space_reclaimed |-> 0]
PruneStats(count, space_reclaimed) ==
    [ok |-> TRUE, count |-> count, space_reclaimed |-> space_reclaimed]
PruneOutcomes ==
    {PruneErr} \cup {PruneStats(c, s) : c \in 0..MaxRemoved, s \in ReclaimedSizes}
\* prune_unused_networks returns Ok(count) with no size
NetworkOutcomes == {PruneErr} \cup {PruneStats(c, 0) : c \in 0..MaxRemoved}

\* CleanupResult::default()
CleanupResultDefault ==
    [dangling_images_removed |-> 0, unused_images_removed |-> 0,
     networks_removed |-> 0, build_cache_reclaimed |-> 0,
     stopped_containers_removed |-> 0, space_reclaimed_bytes |-> 0,
     errors |-> <<>>]

\* result.errors.push(format!("Failed to prune ...: {}", e))
PushFailure(result, what) == [result EXCEPT !.errors = Append(@, what)]

\* the four match arms of execute_safe_cleanup (the same in
\* execute_safe_cleanup_remote)
DanglingArm(result, out) ==
    IF out.ok
    THEN [result EXCEPT !.dangling_images_removed = out.count,
                        !.space_reclaimed_bytes = @ + out.space_reclaimed]
    ELSE PushFailure(result, "Failed to prune dangling images")

NetworksArm(result, out) ==
    IF out.ok
    THEN [result EXCEPT !.networks_removed = out.count]
    ELSE PushFailure(result, "Failed to prune networks")

\* Mutant: the build cache size is recorded but not added to the total.
BuildCacheArmNotSummed(result, out) ==
    IF out.ok
    THEN [result EXCEPT !.build_cache_reclaimed = out.space_reclaimed]
    ELSE PushFailure(result, "Failed to prune build cache")

BuildCacheArm(result, out) ==
    IF out.ok
    THEN [result EXCEPT !.build_cache_reclaimed = out.space_reclaimed,
                        !.space_reclaimed_bytes = @ + out.space_reclaimed]
    ELSE PushFailure(result, "Failed to prune build cache")

StoppedArm(result, out) ==
    IF out.ok
    THEN [result EXCEPT !.stopped_containers_removed = out.count,
                        !.space_reclaimed_bytes = @ + out.space_reclaimed]
    ELSE PushFailure(result, "Failed to prune stopped containers")

\* execute_unused_image_cleanup: always Ok(result); a failed prune is an
\* entry of the errors of the result it returns
execute_unused_image_cleanup(out) ==
    IF out.ok
    THEN [CleanupResultDefault EXCEPT !.unused_images_removed = out.count,
                                      !.space_reclaimed_bytes = @ + out.space_reclaimed]
    ELSE PushFailure(CleanupResultDefault, "Failed to prune unused images")

\* the Ok arm of execute_cleanup_with_profile: two fields of the result of
\* execute_unused_image_cleanup are taken over
MergeUnused(result, unused_result) ==
    [result EXCEPT !.unused_images_removed = unused_result.unused_images_removed,
                   !.space_reclaimed_bytes = @ + unused_result.space_reclaimed_bytes]

NoCleanup ==
    [pc |-> "idle", profile |-> "", path |-> "", outcomes |-> <<>>,
     attempted |-> <<>>, safe |-> CleanupResultDefault,
     result |-> CleanupResultDefault]

\* execute_cleanup_with_profile / execute_cleanup_with_profile_remote is
\* called and enters execute_safe_cleanup
CleanupStarts ==
    /\ cleanup = NoCleanup
    /\ \E profile \in CleanupProfile, path \in Paths :
          cleanup' = [NoCleanup EXCEPT !.pc = "dangling", !.profile = profile,
                                       !.path = path]
    /\ UNCHANGED clOther

CleanupStep(pc, next, out, what, after) ==
    /\ cleanup.pc = pc
    /\ cleanup' = [cleanup EXCEPT !.pc = next,
                                  !.outcomes = Append(@, out),
                                  !.attempted = Append(@, what),
                                  !.result = after]

CleanupDanglingImages ==
    /\ \E out \in PruneOutcomes :
          CleanupStep("dangling", "networks", out, "dangling images",
                      DanglingArm(cleanup.result, out))
    /\ UNCHANGED clOther

CleanupUnusedNetworks ==
    /\ \E out \in NetworkOutcomes :
          CleanupStep("networks", "build_cache", out, "unused networks",
                      NetworksArm(cleanup.result, out))
    /\ UNCHANGED clOther

CleanupBuildCache ==
    /\ \E out \in PruneOutcomes :
          CleanupStep("build_cache", "stopped", out, "build cache",
                      BuildCacheArm(cleanup.result, out))
    /\ UNCHANGED clOther

\* the last step of execute_safe_cleanup, which then returns Ok(result)
CleanupStoppedContainers ==
    /\ cleanup.pc = "stopped"
    /\ \E out \in PruneOutcomes :
          LET after == StoppedArm(cleanup.result, out) IN
          cleanup' = [cleanup EXCEPT
                        !.pc = IF prune_unused_images(cleanup.profile)
                               THEN "unused" ELSE "returned",
                        !.outcomes = Append(@, out),
                        !.attempted = Append(@, "stopped containers"),
                        !.safe = after,
                        !.result = after]
    /\ UNCHANGED clOther

\* moderate/aggressive: execute_unused_image_cleanup, then the orchestrator
\* returns
CleanupUnusedImages ==
    /\ \E out \in PruneOutcomes :
          CleanupStep("unused", "returned", out, "unused images",
                      MergeUnused(cleanup.result, execute_unused_image_cleanup(out)))
    /\ UNCHANGED clOther

IdleCleanup == cleanup = NoCleanup


(***************************************************************************)
(*        REMOTE ANALYSIS OVER THE DOCKER CLI (remote_cleanup.rs)          *)
(***************************************************************************)
MaxScanLines == 2

\* a line of `--format {{json .}}` output as serde_json::from_str sees it:
\* not JSON at all, or a value; a blank line is skipped before parsing
BlankLine == [kind |-> "blank"]
MalformedLine == [kind |-> "malformed"]

OldCreatedAt == <<"2", "0", "2", "4", "-", "0", "1", "-", "1", "5", " ", "1", "0", ":", "3", "0", ":", "4", "5", " ", "+", "0", "0", "0", "0", " ", "U", "T", "C">>
RecentCreatedAt == <<"2", "0", "2", "4", "-", "0", "3", "-", "0", "1", " ", "0", "0", ":", "0", "0", ":", "0", "0", " ", "+", "0", "0", "0", "0", " ", "U", "T", "C">>
ShortCreatedAt == <<"2", "0", "2", "4", "-", "0", "1", "-", "1", "5">>
GarbledCreatedAt == <<"a", "b", "o", "u", "t", " ", "t", "h", "r", "e", "e", " ", "w", "e", "e", "k", "s", " ", "a", "g", "o">>
LongId == <<"0", "1", "2", "3", "4", "5", "6", "7", "8", "9", "a", "b", "c", "d", "e", "f">>
ShortId == <<"a", "b", "c", "1", "2", "3">>
ContainerName == <<"w", "e", "b">>
SizeOneKb == <<"1", "k", "B">>
SizeGarbled == <<"x", "y", "z">>
StateExited == <<"e", "x", "i", "t", "e", "d">>
StateRunning == <<"r", "u", "n", "n", "i", "n", "g">>

\* SystemTime::now() as seconds since the epoch, at the time of the analysis
NowSecs == 1710000000
SecsPerDay == 86400

\* NaiveDateTime::parse_from_str(s, "%Y-%m-%d %H:%M:%S") followed by
\* and_utc().timestamp(), on the timestamps that occur; any other text is a
\* parse error
NaiveDateTimeParse(str) ==
    IF str = SubSeq(OldCreatedAt, 1, 19) THEN Some(1705314645)
    ELSE IF str = SubSeq(RecentCreatedAt, 1, 19) THEN Some(1709251200)
    ELSE None

\* a value, or the panic that unwinds instead of it
Panic == [state |-> "panic"]
Value(v) == [state |-> "ok", v |-> v]
IsPanic(x) == x.state = "panic"

\* &str[..n]: panics when the string is shorter than n bytes
SliceTo(str, n) == IF Len(str) < n THEN Panic ELSE Value(SubSeq(str, 1, n))

\* parse_docker_timestamp: the first 19 bytes are sliced off before parsing
parse_docker_timestamp(timestamp_str) ==
    LET head == SliceTo(timestamp_str, 19) IN
    IF IsPanic(head) THEN Panic
    ELSE Value(unwrap_or(NaiveDateTimeParse(head.v), 0))

\* str::to_uppercase on the characters that occur
ToUpperChar(c) ==
    CASE c = "k" -> "K" [] c = "b" -> "B" [] c = "m" -> "M" [] c = "g" -> "G"
      [] c = "x" -> "X" [] c = "y" -> "Y" [] c = "z" -> "Z" [] OTHER -> c
to_uppercase(str) == [i \in DOMAIN str |-> ToUpperChar(str[i])]
ends_with(str, suffix) ==
    /\ Len(suffix) <= Len(str)
    /\ SubSeq(str, Len(str) - Len(suffix) + 1, Len(str)) = suffix

\* str::parse::<f64>() on unsigned decimal integers; anything else that
\* occurs here is a parse error
RECURSIVE DigitsValue(_)
DigitsValue(str) ==
    IF str = <<>> THEN 0
    ELSE 10 * DigitsValue(SubSeq(str, 1, Len(str) - 1))
         + (CHOOSE d \in 0..9 : Digit(d) = str[Len(str)])
ParseNumber(str) ==
    IF str # <<>> /\ \A i \in DOMAIN str : \E d \in 0..9 : Digit(d) = str[i]
    THEN Some(DigitsValue(str)) ELSE None

\* parse_docker_size: number and unit, 0 when the number does not parse
parse_docker_size(size_str) ==
    LET up == to_uppercase(Trim(size_str))
        cut(n) == SubSeq(up, 1, Len(up) - n)
        num_str == IF ends_with(up, <<"G", "B">>) \/ ends_with(up, <<"M", "B">>)
                      \/ ends_with(up, <<"K", "B">>) THEN cut(2)
                   ELSE IF ends_with(up, <<"B">>) THEN cut(1)
                   ELSE up
        multiplier == IF ends_with(up, <<"G", "B">>) THEN 1024 * 1024 * 1024
                      ELSE IF ends_with(up, <<"M", "B">>) THEN 1024 * 1024
                      ELSE IF ends_with(up, <<"K", "B">>) THEN 1024
                      ELSE 1
    IN IF IsSome(ParseNumber(num_str)) THEN Unwrap(ParseNumber(num_str)) * multiplier
       ELSE 0

\* container.get(key).and_then(|v| v.as_str())
StrField(value, key) == and_then(JGet(value, key), as_str)

ScanStats(count, total_size_bytes, items) ==
    [state |-> "ok", count |-> count, total_size_bytes |-> total_size_bytes,
     items |-> items]
ScanErr == [state |-> "err"]

\* one pass of the loop of analyze_stopped_containers_remote over a parsed
\* line; the default of unwrap_or(&id[..12]) is evaluated before Names is
\* looked at
StoppedContainerLine(stats, container, threshold_days) ==
    LET state == unwrap_or(StrField(container, "State"), <<>>)
        parsed_created == parse_docker_timestamp(unwrap_or(StrField(container, "CreatedAt"), <<>>))
        created == parsed_created.v
        age_days == (NowSecs - created) \div SecsPerDay
        id == unwrap_or(StrField(container, "ID"), <<>>)
        size_bytes == parse_docker_size(unwrap_or(StrField(container, "Size"), <<"0", "B">>))
        short_id == SliceTo(id, 12)
        name == unwrap_or(StrField(container, "Names"), short_id.v)
    IN
    IF state = StateRunning THEN stats
    ELSE IF IsPanic(parsed_created) THEN Panic
    ELSE IF age_days < threshold_days THEN stats
    ELSE IF IsPanic(short_id) THEN Panic
    ELSE ScanStats(stats.count + 1, stats.total_size_bytes + size_bytes,
                   Append(stats.items,
                          [id |-> id, name |-> name, size_bytes |-> size_bytes,
                           created_timestamp |-> created]))

\* one pass of the loop of analyze_dangling_images_remote
DanglingImageLine(stats, image) ==
    LET size_bytes == parse_docker_size(unwrap_or(StrField(image, "Size"), <<"0", "B">>))
    IN ScanStats(stats.count + 1, stats.total_size_bytes + size_bytes,
                 Append(stats.items,
                        [id |-> unwrap_or(StrField(image, "ID"), <<>>),
                         name |-> <<>>, size_bytes |-> size_bytes,
                         created_timestamp |-> 0]))

\* items.sort_by(|a, b| b.size_bytes.cmp(&a.size_bytes)): stable, descending
RECURSIVE SortBySizeDesc(_)
SortBySizeDesc(items) ==
    IF items = <<>> THEN <<>>
    ELSE LET biggest == CHOOSE i \in DOMAIN items :
                            /\ \A j \in DOMAIN items : items[j].size_bytes <= items[i].size_bytes
                            /\ \A j \in 1..(i - 1) : items[j].size_bytes < items[i].size_bytes
         IN <<items[biggest]>>
            \o SortBySizeDesc(SubSeq(items, 1, biggest - 1)
                              \o SubSeq(items, biggest + 1, Len(items)))

\* the loop over output.lines(): blank lines are skipped, a line that is not
\* JSON returns Err through `?`, a panic unwinds out of the analysis
RECURSIVE ScanLines(_, _, _, _)
ScanLines(which, lines, stats, threshold_days) ==
    IF lines = <<>> THEN [stats EXCEPT !.items = SortBySizeDesc(@)]
    ELSE IF Head(lines) = BlankLine
    THEN ScanLines(which, Tail(lines), stats, threshold_days)
    ELSE IF Head(lines) = MalformedLine THEN ScanErr
    ELSE LET after == IF which = "stopped"
                      THEN StoppedContainerLine(stats, Head(lines), threshold_days)
                      ELSE DanglingImageLine(stats, Head(lines))
         IN IF IsPanic(after) THEN Panic
            ELSE ScanLines(which, Tail(lines), after, threshold_days)

analyze_stopped_containers_remote(lines) ==
    ScanLines("stopped", lines, ScanStats(0, 0, <<>>), DefaultStoppedAgeDays)

analyze_dangling_images_remote(lines) ==
    ScanLines("dangling", lines, ScanStats(0, 0, <<>>), DefaultStoppedAgeDays)

Container(fields) == JObject(fields)
FullContainer ==
    [State |-> JString(StateExited), CreatedAt |-> JString(OldCreatedAt),
     ID |-> JString(LongId), Names |-> JString(ContainerName),
     Size |-> JString(SizeOneKb)]
Without(fields, key) == [k \in DOMAIN fields \ {key} |-> fields[k]]
\* the lines `docker ps -a --format {{json .}}` can hand to the analysis
ContainerLines ==
    { BlankLine, MalformedLine,
      Container(FullContainer),
      Container([FullContainer EXCEPT !.State = JString(StateRunning)]),
      Container(Without([FullContainer EXCEPT !.State = JString(StateRunning)], "CreatedAt")),
      Container([FullContainer EXCEPT !.CreatedAt = JString(RecentCreatedAt)]),
      Container([FullContainer EXCEPT !.CreatedAt = JString(ShortCreatedAt)]),
      Container([FullContainer EXCEPT !.CreatedAt = JString(GarbledCreatedAt)]),
      Container(Without(FullContainer, "CreatedAt")),
      Container(Without(FullContainer, "ID")),
      Container(Without([FullContainer EXCEPT !.ID = JString(ShortId)], "Names")),
      Container(Without(FullContainer, "Names")),
      Container(Without(FullContainer, "Size")),
      Container([FullContainer EXCEPT !.Size = JString(SizeGarbled)]) }
\* the lines `docker image ls --filter dangling=true` can hand to it
DanglingImageLines ==
    { BlankLine, MalformedLine,
      JObject([ID |-> JString(LongId), Size |-> JString(SizeOneKb)]),
      JObject([ID |-> JString(LongId), Size |-> JString(SizeGarbled)]),
      JObject([ID |-> JString(LongId)]),
      JObject([Size |-> JString(SizeOneKb)]) }
OutputsOf(kinds) == UNION {[1..n -> kinds] : n \in 1..MaxScanLines}

NoScan == [fn |-> "none", lines |-> <<>>, outcome |-> ScanErr]

AnalyzeStoppedContainersRemote ==
    /\ scan = NoScan
    /\ \E lines \in OutputsOf(ContainerLines) :
          scan' = [fn |-> "analyze_stopped_containers_remote", lines |-> lines,
                   outcome |-> analyze_stopped_containers_remote(lines)]
    /\ UNCHANGED scOther

AnalyzeDanglingImagesRemote ==
    /\ scan = NoScan
    /\ \E lines \in OutputsOf(DanglingImageLines) :
          scan' = [fn |-> "analyze_dangling_images_remote", lines |-> lines,
                   outcome |-> analyze_dangling_images_remote(lines)]
    /\ UNCHANGED scOther

IdleScan == scan = NoScan


(***************************************************************************)
(*               HEALTH SAMPLER (dockermon sample_stats_once)              *)
(***************************************************************************)
MaxTicks == 2

\* counters of a stats frame
Ticks == 0..MaxTicks
OptTicks == {None} \cup {Some(t) : t \in Ticks}
\* memory_stats.usage / limit as they occur
OptBytes == {None, Some(0), Some(MaxTicks)}
\* online_cpus and the length of percpu_usage, when present
OptCpus == {None, Some(2)}
OptPerCpu == {None, Some(4)}

\* an f64 that is the quotient of two integers
Ratio(num, den) == [num |-> num, den |-> den]

\* Option::or_else(..).unwrap_or(1)
online_cpus_of(online_cpus, percpu_len) ==
    IF IsSome(online_cpus) THEN Unwrap(online_cpus)
    ELSE IF IsSome(percpu_len) THEN Unwrap(percpu_len)
    ELSE 1

\* the cpu_pct match of sample_stats_once
cpu_pct_of(total, system_opt, pre_total, pre_system_opt, online_cpus, percpu_len) ==
    IF /\ IsSome(system_opt) /\ IsSome(pre_system_opt)
       /\ total > pre_total
       /\ Unwrap(system_opt) > Unwrap(pre_system_opt)
    THEN LET cpu_delta == total - pre_total
             system_delta == Unwrap(system_opt) - Unwrap(pre_system_opt)
         IN IF system_delta > 0
            THEN Some(Ratio(cpu_delta * online_cpus_of(online_cpus, percpu_len) * 100,
                            system_delta))
            ELSE None
    ELSE None

\* the mem_pct match of sample_stats_once
mem_pct_of(usage, limit) ==
    IF IsSome(usage) /\ IsSome(limit) /\ Unwrap(limit) > 0
    THEN Some(Ratio(Unwrap(usage) * 100, Unwrap(limit)))
    ELSE None

NoFrame ==
    [total |-> 0, system |-> None, pre_total |-> 0, pre_system |-> None,
     online_cpus |-> None, percpu_len |-> None, usage |-> None, limit |-> None]
NotSampled == [state |-> "none", frame |-> NoFrame, cpu_pct |-> None, mem_pct |-> None]

\* sample_stats_once when the stream yields a frame
SampleFrame ==
    /\ sample = NotSampled
    /\ \E total, pre_total \in Ticks, system_opt, pre_system_opt \in OptTicks,
          online_cpus \in OptCpus, percpu_len \in OptPerCpu,
          usage, limit \in OptBytes :
          sample' =
            [state |-> "ok",
             frame |-> [total |-> total, system |-> system_opt,
                        pre_total |-> pre_total, pre_system |-> pre_system_opt,
                        online_cpus |-> online_cpus, percpu_len |-> percpu_len,
                        usage |-> usage, limit |-> limit],
             cpu_pct |-> cpu_pct_of(total, system_opt, pre_total, pre_system_opt,
                                    online_cpus, percpu_len),
             mem_pct |-> mem_pct_of(usage, limit)]
    /\ UNCHANGED smOther

\* sample_stats_once when the stream ends without a frame (Ok((None, None))),
\* when the frame is an error, or when the two seconds elapse (Err)
SampleWithoutFrame ==
    /\ sample = NotSampled
    /\ \E how \in {"ended", "error", "timeout"} :
          sample' = [NotSampled EXCEPT !.state = IF how = "ended" THEN "ok-empty" ELSE "err"]
    /\ UNCHANGED smOther

IdleSample == sample = NotSampled


(***************************************************************************)
(*          DNF OUTPUT PARSER (DnfChecker::parse_updates, by character)    *)
(***************************************************************************)
MaxDnfLines == 2

\* str::lines(): pieces between line feeds, without a last empty piece
str_lines(str) ==
    LET pieces == Split(str, "\n") IN
    IF pieces[Len(pieces)] = <<>> THEN SubSeq(pieces, 1, Len(pieces) - 1) ELSE pieces

\* str::split_whitespace(): the maximal runs of non-whitespace characters
RECURSIVE split_whitespace(_)
split_whitespace(str) ==
    LET rest == TrimStart(str) IN
    IF rest = <<>> THEN <<>>
    ELSE LET ends == {i \in 1..Len(rest) : rest[i] \in Whitespace}
             stop == IF ends = {} THEN Len(rest) + 1
                     ELSE CHOOSE i \in ends : \A j \in ends : i <= j
         IN <<SubSeq(rest, 1, stop - 1)>>
            \o split_whitespace(SubSeq(rest, stop, Len(rest)))

\* the two filters of parse_updates
DnfLineKept(line) ==
    /\ line # <<>>
    /\ ~StartsWithHash(line)
    /\ Len(split_whitespace(line)) >= 3

\* the map of parse_updates: first.split('.').next() of the first field
DnfPackageName(line) == Split(split_whitespace(line)[1], ".")[1]

\* DnfChecker::parse_updates
DnfChecker_parse_updates(output) ==
    LET kept == SelectSeq(str_lines(output), DnfLineKept) IN
    [i \in 1..Len(kept) |-> DnfPackageName(kept[i])]

\* lines of `dnf check-update --quiet --cacheonly` output
DnfOutputLines ==
    { <<"d", "o", "c", "k", "e", "r", "-", "c", "e", ".", "x", "8", "6", "_", "6", "4", " ", "3", ":", "2", "5", " ", "s", "t", "a", "b", "l", "e">>,
      <<"k", "e", "r", "n", "e", "l", ".", "x", "8", "6", "_", "6", "4", " ", " ", "6", ".", "6", ".", "8", " ", "u", "p", "d", "a", "t", "e", "s">>,
      <<"j", "a", "v", "a", "-", "1", ".", "8", ".", "0", "-", "o", "p", "e", "n", "j", "d", "k", ".", "x", "8", "6", "_", "6", "4", " ", "1", ":", "1", ".", "8", " ", "u", "p", "d", "a", "t", "e", "s">>,
      <<"b", "a", "s", "h", " ", "5", ".", "2", " ", "b", "a", "s", "e">>,
      <<" ", "v", "i", "m", ".", "x", "8", "6", "_", "6", "4", " ", "9", ".", "0", " ", "u", "p", "d", "a", "t", "e", "s">>,
      <<"#", " ", "a", " ", "b", " ", "c">>,
      <<"#">>,
      <<>>,
      <<" ", " ">>,
      <<"L", "a", "s", "t", " ", "m", "e", "t", "a", "d", "a", "t", "a">>,
      <<"S", "e", "c", "u", "r", "i", "t", "y", ":", " ", "k", "e", "r", "n", "e", "l", "-", "c", "o", "r", "e", " ", "i", "s", " ", "i", "n", "s", "t", "a", "l", "l", "e", "d">> }
\* the outputs: some lines, joined by line feeds, with or without a last one
DnfTexts ==
    {Join(ls, <<"\n">>) \o tail :
        ls \in UNION {[1..n -> DnfOutputLines] : n \in 1..MaxDnfLines},
        tail \in {<<>>, <<"\n">>}}
    \cup {<<>>}

DnfNotParsed == [state |-> "none", output |-> <<>>, names |-> <<>>]

\* checker.parse_updates(output) on the output of one check
DnfParseUpdates ==
    /\ dnf = DnfNotParsed
    /\ \E output \in DnfTexts :
          dnf' = [state |-> "parsed", output |-> output,
                  names |-> DnfChecker_parse_updates(output)]
    /\ UNCHANGED dnOther

IdleDnf == dnf = DnfNotParsed


(***************************************************************************)
(*        PER-SERVER NTFY FAN-OUT (updatemon main, detailed mode)          *)
(***************************************************************************)
\* the target lists of a run: one or two different servers, in either order
FanoutTargets ==
    {<<s>> : s \in NoticeServers}
        \cup {p \in NoticeServers \X NoticeServers : p[1] # p[2]}

\* what a spawned task hands to `task.await`: Ok(report) when check_server
\* returned (its report, or the error line of the server), or a JoinError
\* when the task panicked or was cancelled
Joined(text) == [joined |-> TRUE, report |-> text]
JoinError == [joined |-> FALSE, report |-> <<>>]
\* what check_server finds on a server in the runs modelled
FanoutProbes ==
    { Probe("none", 1, "ok", 1, 1), Probe("none", 0, "ok", 0, 0),
      Probe("exec", 0, "ok", 0, 0) }

\* Iterator::zip: pairs by position, as long as both sides have an item
zip(reports, servers) ==
    [k \in 1..(IF Len(reports) < Len(servers) THEN Len(reports) ELSE Len(servers)) |->
        [report |-> reports[k], server |-> servers[k]]]

\* send_ntfy_per_server: one message per pair whose report shows updates
send_ntfy_per_server(reports, servers, url_env, secret_env) ==
    LET pairs == zip(reports, servers)
        all == [k \in DOMAIN pairs |->
                  updatemon_ntfy(pairs[k].report, pairs[k].server,
                                 url_env, secret_env)]
    IN SelectSeq(all, LAMBDA n : n.sent)

NoFanout ==
    [pc |-> "idle", servers |-> <<>>, secret_env |-> None, handles |-> <<>>,
     awaited |-> 0, all_reports |-> <<>>, owners |-> <<>>, sent |-> <<>>]

\* main up to the end of the spawn loop: one task per server
FanoutSpawns ==
    /\ fanout = NoFanout
    /\ \E servers \in FanoutTargets, secret_env \in WebhookSecrets :
          fanout' = [NoFanout EXCEPT !.pc = "running", !.servers = servers,
                                     !.secret_env = secret_env,
                                     !.handles = [i \in DOMAIN servers |-> None]]
    /\ UNCHANGED foOther

\* a task ends: check_server returned and the closure made its report, or
\* the task ended without a value
FanoutTaskEnds ==
    /\ fanout.pc = "running"
    /\ \E i \in DOMAIN fanout.servers :
          /\ fanout.handles[i] = None
          /\ \E h \in {JoinError}
                 \cup {Joined(task_report(fanout.servers[i],
                                          check_server(fanout.servers[i], TRUE, probe))) :
                          probe \in FanoutProbes} :
                fanout' = [fanout EXCEPT !.handles[i] = Some(h)]
    /\ UNCHANGED foOther

\* one pass of `for task in tasks { match task.await {..} }`: Ok pushes the
\* report, Err logs the join error
FanoutAwaits ==
    /\ fanout.pc = "running"
    /\ fanout.awaited < Len(fanout.servers)
    /\ LET i == fanout.awaited + 1 IN
          /\ fanout.handles[i] # None
          /\ LET h == Unwrap(fanout.handles[i]) IN
             fanout' = [fanout EXCEPT
                          !.awaited = i,
                          !.all_reports = IF h.joined THEN Append(@, h.report) ELSE @,
                          !.owners = IF h.joined THEN Append(@, i) ELSE @]
    /\ UNCHANGED foOther

\* detailed mode: send_ntfy_per_server(&client, &all_reports, &servers)
FanoutNotifies ==
    /\ fanout.pc = "running"
    /\ fanout.awaited = Len(fanout.servers)
    /\ fanout' = [fanout EXCEPT
                    !.pc = "done",
                    !.sent = send_ntfy_per_server(fanout.all_reports, fanout.servers,
                                                  WebhookUrlEnv, fanout.secret_env)]
    /\ UNCHANGED foOther

IdleFanout == fanout = NoFanout

(***************************************************************************)
(*                            SPECIFICATIONS                               *)
(***************************************************************************)
IdleWebhook ==
    /\ secret \in ConfiguredSecrets
    /\ resp = NoResponse
    /\ tasks = <<>>
    /\ handled = 0
    /\ accepted = {}

\* every subsystem but the profile orchestrator at rest
IdleNonProfile ==
    /\ IdleWebhook
    /\ IdleAnalyzer
    /\ IdleExecutor
    /\ IdleParser
    /\ IdleRegistry
    /\ IdleCheck
    /\ IdleUpdater
    /\ IdleFleet
    /\ IdleNotice
    /\ IdleImageCheck
    /\ IdleRetry
    /\ IdleCleanup
    /\ IdleScan
    /\ IdleSample
    /\ IdleDnf
    /\ IdleFanout

IdleAll == IdleProfile /\ IdleNonProfile

InitWebhook == IdleAll

NextWebhook ==
    \/ handle_os_update
    \/ handle_docker_all_update
    \/ handle_docker_image_update
    \/ handle_cleanup_safe
    \/ handle_cleanup_prune_unused
    \/ HandlerReturns
    \/ \E i \in DOMAIN tasks : TaskOperationReturns(i)
    \/ \E i \in DOMAIN tasks : TaskSendGotify(i)
    \/ \E i \in DOMAIN tasks : TaskSendNtfy(i)

SpecWebhook == InitWebhook /\ [][NextWebhook]_vars

InitProfile ==
    /\ env \in [EnvVars -> ConfiguredValues]
    /\ env0 = env
    /\ execs = [e \in ExecSlots |-> IdleExec]
    /\ calls = 0
    /\ overlapped = FALSE
    /\ IdleNonProfile

\* calls one after the other: a call starts only when none is in progress
NextProfileSeq ==
    \/ /\ \E e \in ExecSlots, profile \in CleanupProfile, path \in Paths :
            CallAlone(e, profile, path)
       /\ UNCHANGED prOther
    \/ /\ \E e \in ExecSlots : ProfileStep(e)
       /\ UNCHANGED prOther

\* calls from parallel tasks (webhook cleanup requests, the per-server tasks
\* of a fleet run): a call may start while another is in progress
NextProfile ==
    \/ /\ \E e \in ExecSlots, profile \in CleanupProfile, path \in Paths :
            Call(e, profile, path)
       /\ UNCHANGED prOther
    \/ /\ \E e \in ExecSlots : ProfileStep(e)
       /\ UNCHANGED prOther

SpecProfileSeq == InitProfile /\ [][NextProfileSeq]_vars
SpecProfile == InitProfile /\ [][NextProfile]_vars

InitAnalyzer == IdleAll
NextAnalyzer ==
    \/ analyze_cleanup
    \/ analyze_cleanup_remote
SpecAnalyzer == InitAnalyzer /\ [][NextAnalyzer]_vars

InitExecutor == IdleAll
NextExecutor == execute_command
SpecExecutor == InitExecutor /\ [][NextExecutor]_vars

InitParser == IdleAll
NextParser == Parse
SpecParser == InitParser /\ [][NextParser]_vars

InitRegistry == IdleAll
NextRegistry == BuildServerRegistry
SpecRegistry == InitRegistry /\ [][NextRegistry]_vars

InitCheck == IdleAll
NextCheck ==
    \/ CheckUpdatesCalled
    \/ RefreshStarts
    \/ RefreshEnds
    \/ CheckUpdatesReturns
SpecCheck == InitCheck /\ [][NextCheck]_vars

InitUpdater == IdleAll
NextUpdater ==
    \/ UpdateOs
    \/ UpdateDocker
SpecUpdater == InitUpdater /\ [][NextUpdater]_vars


InitFleet == IdleAll
NextFleet ==
    \/ UpdatectlStarts
    \/ UpdatemonStarts
    \/ TaskCompletes
    \/ TaskAborts
    \/ AwaitTask
    \/ Summarise
SpecFleet == InitFleet /\ [][NextFleet]_vars


InitNotice == IdleAll
NextNotice ==
    \/ UpdatemonNotifies
    \/ DockermonNotifies
SpecNotice == InitNotice /\ [][NextNotice]_vars


InitImageCheck == IdleAll
NextImageCheck == CheckImage
SpecImageCheck == InitImageCheck /\ [][NextImageCheck]_vars


InitRetry == IdleAll
NextRetry ==
    \/ RetryCalled
    \/ RetryAttempt
    \/ RetrySleepEnds
SpecRetry == InitRetry /\ [][NextRetry]_vars


InitCleanup == IdleAll
NextCleanup ==
    \/ CleanupStarts
    \/ CleanupDanglingImages
    \/ CleanupUnusedNetworks
    \/ CleanupBuildCache
    \/ CleanupStoppedContainers
    \/ CleanupUnusedImages
SpecCleanup == InitCleanup /\ [][NextCleanup]_vars


InitScan == IdleAll
NextScan ==
    \/ AnalyzeStoppedContainersRemote
    \/ AnalyzeDanglingImagesRemote
SpecScan == InitScan /\ [][NextScan]_vars


InitSample == IdleAll
NextSample ==
    \/ SampleFrame
    \/ SampleWithoutFrame
SpecSample == InitSample /\ [][NextSample]_vars


InitDnf == IdleAll
NextDnf == DnfParseUpdates
SpecDnf == InitDnf /\ [][NextDnf]_vars


InitFanout == IdleAll
NextFanout ==
    \/ FanoutSpawns
    \/ FanoutTaskEnds
    \/ FanoutAwaits
    \/ FanoutNotifies
SpecFanout == InitFanout /\ [][NextFanout]_vars

(***************************************************************************)
(* Webhook claims                                                          *)
(***************************************************************************)
Answered == resp.status # 0
CarriesSecret(req) == req.token = Some(secret)
NamesKnownServer(req) == req.server # None /\ ServerLookup(req) # None

\* C1: every request that does not carry a token equal to the secret (wrong
\* token, token of another length, no token) is answered 401 and spawns no
\* background task.
C1_NoMatchingTokenIs401 ==
    (Answered /\ ~CarriesSecret(resp.req)) => (resp.status = 401 /\ resp.spawned = 0)

\* C2 as stated: a request with a matching token and a known server is
\* answered 202 and spawns exactly one background task.
C2_MatchingTokenKnownServerIs202 ==
    (Answered /\ CarriesSecret(resp.req) /\ NamesKnownServer(resp.req))
        => (resp.status = 202 /\ resp.spawned = 1)

ImageGivenIfNeeded(req) == req.route = "update/docker/image" => req.image # None

\* C2 amended: a request with a matching token, a known server and, on the
\* update/docker/image route, an image parameter is answered 202 with exactly
\* one task spawned for its route and server; a handler that has spawned its
\* task can return at once, and the 202 is returned wherever the task stands
\* (still running, operation returned Ok or Err, sends made); 202 is given
\* only with a task spawned.
C2_AcceptedSpawnsOneTask ==
    /\ (Answered /\ CarriesSecret(resp.req) /\ NamesKnownServer(resp.req)
            /\ ImageGivenIfNeeded(resp.req))
        => /\ resp.status = 202
           /\ resp.spawned = 1
           /\ resp.task \in DOMAIN tasks
           /\ resp.taskpc \in {"running", "gotify", "ntfy", "done"}
           /\ tasks[resp.task].route = resp.req.route
           /\ tasks[resp.task].server = Unwrap(resp.req.server)
    /\ (Answered /\ resp.status = 202) => resp.spawned = 1
    /\ \A h \in accepted :
          /\ h.spawned = 1
          /\ tasks[h.task].route = h.req.route
          /\ tasks[h.task].server = Unwrap(h.req.server)
          /\ ENABLED HandlerReturns

\* a 202 has been returned and the operation it started is still running
C2_Witness ==
    /\ resp.status = 202
    /\ resp.req.route = "update/docker/all"
    /\ resp.taskpc = "running"
    /\ tasks[resp.task].pc = "running"

\* a 202 was returned when the task it spawned had already made both sends
ReturnedAfterTaskDone ==
    /\ resp.status = 202
    /\ resp.taskpc = "done"

\* C3: once the operation of a background task has returned (Ok or Err), a
\* title/body for that outcome is built, Gotify is called before ntfy, a task
\* that is done has called both whatever the first call returned, and no task
\* ends any other way.
C3_BothBackendsAttempted ==
    \A i \in DOMAIN tasks :
        LET t == tasks[i] IN
        /\ t.pc \in {"running", "gotify", "ntfy", "done"}
        /\ t.pc = "running" <=> t.outcome = "pending"
        /\ t.pc # "running" =>
              /\ t.title = <<t.server, TitleText(t.route, t.outcome = "ok")>>
              /\ t.message[1] = (IF t.outcome = "ok" THEN "check" ELSE "cross")
        /\ t.pc = "gotify" => (t.gotify = "not_called" /\ t.ntfy = "not_called")
        /\ t.pc = "ntfy" => (t.gotify \in SendResults /\ t.ntfy = "not_called")
        /\ t.pc = "done" => (t.gotify \in SendResults /\ t.ntfy \in SendResults)

\* an operation failed, the Gotify send failed too, and ntfy was still sent
C3_Witness ==
    \E i \in DOMAIN tasks :
        /\ tasks[i].pc = "done"
        /\ tasks[i].outcome = "err"
        /\ tasks[i].gotify = "err"
        /\ tasks[i].ntfy = "ok"

(***************************************************************************)
(* Profile orchestrator claims                                             *)
(***************************************************************************)
ProfileSteps == {"dangling", "networks", "build_cache", "containers", "unused"}

\* the thresholds the three profiles stand for
ExpectedStoppedDays(profile) ==
    IF profile = "Conservative" THEN 30 ELSE IF profile = "Moderate" THEN 7 ELSE 0
ExpectedImageDays(profile) ==
    IF profile = "Conservative" THEN "9223372036854775807"
    ELSE IF profile = "Moderate" THEN "90" ELSE "30"
ExpectedImageHours(profile) == IF profile = "Moderate" THEN 90 * 24 ELSE 30 * 24
ExpectedTrace(profile) ==
    IF profile \in {"Moderate", "Aggressive"}
    THEN <<"set", "safe", "unused", "restore">>
    ELSE <<"set", "safe", "restore">>
IsPrefix(a, b) == Len(a) <= Len(b) /\ \A i \in 1..Len(a) : a[i] = b[i]

\* C4: after a non-concurrent call of the orchestrator has returned, also when
\* cleanup steps failed, both threshold variables hold the value they had
\* before the call (unset stays unset); no call ends without returning.
C4_ThresholdsRestored ==
    /\ NoneActive => env = env0
    /\ \A e \in ExecSlots : execs[e].pc # "panicked"

\* two calls have returned, one with failed steps, in an environment where one
\* variable was unset and the other set
C4_Witness ==
    /\ NoneActive
    /\ calls >= 2
    /\ env0[STOPPED] = None /\ env0[IMAGE] = Some("14")
    /\ \E e \in ExecSlots : execs[e].pc = "returned" /\ execs[e].errors >= 2

\* C5: in a non-concurrent call with profile P the thresholds are set to P's
\* values before any cleanup step, both cleanup steps run under them (the
\* remote prunes filter by them), unused-image cleanup runs iff P is Moderate
\* or Aggressive, and the restore comes last.
C5_ProfileStepsInOrder ==
    \A e \in ExecSlots :
        LET x == execs[e] IN
        /\ IsPrefix(x.trace, ExpectedTrace(x.profile))
        /\ x.pc \in ProfileSteps =>
              /\ x.trace[1] = "set"
              /\ env[STOPPED] = Some(I64ToString(ExpectedStoppedDays(x.profile)))
              /\ env[IMAGE] = Some(ExpectedImageDays(x.profile))
              /\ ThresholdFromEnv(env, STOPPED, DefaultStoppedAgeDays)
                    = ExpectedStoppedDays(x.profile)
        /\ x.pc = "unused" => x.trace = <<"set", "safe">>
        /\ (x.pc \in {"restore_container_age", "restore_image_age", "returned"}) =>
              /\ x.stopped_filter =
                    (IF x.path = "remote"
                     THEN [kind |-> "until", hours |-> 24 * ExpectedStoppedDays(x.profile)]
                     ELSE NoFilter)
              /\ x.image_filter =
                    (IF x.profile = "Conservative" THEN NotRun
                     ELSE IF x.path = "remote"
                     THEN [kind |-> "until", hours |-> ExpectedImageHours(x.profile)]
                     ELSE NoFilter)
              /\ x.pc = "returned" => x.trace = ExpectedTrace(x.profile)

\* an Aggressive remote run has returned: containers pruned with until=0h,
\* unused images pruned with until=720h
C5_Witness ==
    \E e \in ExecSlots :
        /\ execs[e].pc = "returned"
        /\ execs[e].profile = "Aggressive"
        /\ execs[e].path = "remote"
        /\ execs[e].stopped_filter = [kind |-> "until", hours |-> 0]
        /\ execs[e].image_filter = [kind |-> "until", hours |-> 720]
        /\ execs[e].trace = <<"set", "safe", "unused", "restore">>

ForeignStoppedFilter(x) ==
    /\ x.stopped_filter.kind = "until"
    /\ x.stopped_filter.hours # 24 * ExpectedStoppedDays(x.profile)
ForeignImageFilter(x) ==
    /\ x.image_filter.kind = "until"
    /\ x.image_filter.hours # ExpectedImageHours(x.profile)

\* C6: the mutate-run-restore pattern breaks under concurrent calls, and only
\* under them: a threshold variable left different from its value before the
\* calls, a prune filtered by a threshold the call's own profile did not set,
\* and a call that ends without returning, each happen only when calls
\* overlapped (the witness shows that they do happen).
C6_DamageOnlyWhenOverlapped ==
    /\ (NoneActive /\ env # env0) => overlapped
    /\ \A e \in ExecSlots :
          (\/ ForeignStoppedFilter(execs[e])
           \/ ForeignImageFilter(execs[e])
           \/ execs[e].pc = "panicked") => overlapped

\* two overlapping calls have both returned: one pruned stopped containers
\* with the other's threshold, and a variable differs from its value before
C6_Witness ==
    /\ \A e \in ExecSlots : execs[e].pc = "returned"
    /\ env # env0
    /\ \E e \in ExecSlots : ForeignStoppedFilter(execs[e])

(***************************************************************************)
(* Analyzer claims                                                         *)
(***************************************************************************)
\* C7: every report returned by analyze_cleanup or analyze_cleanup_remote has
\* total_reclaimable_bytes = dangling images + build cache + stopped
\* containers; unused images, logs and volumes do not contribute.
C7_ReclaimableIsSumOfThree ==
    report.state = "ok" =>
        report.report.total_reclaimable_bytes =
            report.report.dangling_images
            + report.report.build_cache
            + report.report.stopped_containers

\* a local report with unused images, logs and volumes of non-zero size next
\* to the three categories that count
C7_Witness ==
    /\ report.state = "ok"
    /\ report.path = "local"
    /\ report.report.unused_images > 0
    /\ report.report.large_logs > 0
    /\ report.report.volumes > 0
    /\ report.report.dangling_images = 1
    /\ report.report.build_cache = 1
    /\ report.report.stopped_containers = 1
    /\ report.report.total_reclaimable_bytes = 3

(***************************************************************************)
(* Executor claims                                                         *)
(***************************************************************************)
\* C8: a local call returns the captured stdout as success for every exit
\* status; it fails only when the process could not be spawned or has not
\* completed by the 120 s deadline.
C8_LocalIgnoresExitStatus ==
    (xcall.called /\ is_local(xcall.server)) =>
        LET out == xcall.out IN
        /\ xcall.result.ok <=> (out.spawned /\ out.elapsed <= 120)
        /\ xcall.result.ok =>
              /\ Len(xcall.result.text) = Len(out.stdout)
              /\ \A i \in 1..Len(out.stdout) :
                    out.stdout[i] # "0xFF" => xcall.result.text[i] = out.stdout[i]
        /\ ~out.spawned => xcall.result.err = "spawn"
        /\ (out.spawned /\ out.elapsed > 120) => xcall.result.err = "timeout"

\* a local process exits with status 100 inside the deadline, having written
\* to stdout and "Permission denied" to stderr, and the call succeeds
C8_Witness ==
    /\ xcall.called
    /\ is_local(xcall.server)
    /\ xcall.out.spawned
    /\ xcall.out.status = 100
    /\ xcall.out.elapsed = 120
    /\ xcall.out.stdout = <<"o">>
    /\ Contains(xcall.out.stderr, PermissionDenied)
    /\ xcall.result = Ok(<<"o">>)

HasSshError(stderr) ==
    \/ Contains(stderr, PermissionDenied)
    \/ Contains(stderr, ConnectionRefused)

\* C9: an SSH call that was spawned and finished inside the deadline fails
\* exactly when ssh exited non-zero and stderr contains "Permission denied"
\* or "Connection refused"; otherwise it returns stdout, whatever the exit
\* code.
C9_SshFailsOnlyOnSshErrors ==
    (xcall.called /\ ~is_local(xcall.server)) =>
        LET out == xcall.out IN
        /\ (out.spawned /\ out.elapsed <= 120) =>
              /\ ~xcall.result.ok <=> (out.status # 0 /\ HasSshError(out.stderr))
              /\ ~xcall.result.ok => xcall.result.err = "ssh_failed"
              /\ xcall.result.ok => Len(xcall.result.text) = Len(out.stdout)
        /\ ~out.spawned => xcall.result.err = "spawn"
        /\ (out.spawned /\ out.elapsed > 120) => xcall.result.err = "timeout"

\* ssh exits 0 with "Permission denied" on stderr and the call succeeds
C9_Witness ==
    /\ xcall.called
    /\ ~is_local(xcall.server)
    /\ xcall.out.spawned /\ xcall.out.elapsed <= 120
    /\ xcall.out.status = 0
    /\ HasSshError(xcall.out.stderr)
    /\ xcall.out.stdout = <<"o">>
    /\ xcall.result = Ok(<<"o">>)

(***************************************************************************)
(* Server parser claims                                                    *)
(***************************************************************************)
Colons(str) == Cardinality({i \in 1..Len(str) : str[i] = ":"})
\* the host component of a spec: what follows the ':', the whole spec when
\* there is none
HostComponent(str) ==
    LET parts == Split(Trim(str), ":") IN Trim(parts[Len(parts)])

\* C10: an accepted server spec gives a local server (no SSH endpoint) iff
\* its host component is empty, "local" or "localhost" in any letter case;
\* a spec with more than one ':' is rejected.
C10_LocalIffHostEmptyOrLocal ==
    parsed.called =>
        /\ Colons(parsed.input) > 1 => ~parsed.result.ok
        /\ parsed.result.ok =>
              (parsed.result.server.ssh_host = None
                 <=> \/ HostComponent(parsed.input) = <<>>
                     \/ eq_ignore_ascii_case(HostComponent(parsed.input), StrLocal)
                     \/ eq_ignore_ascii_case(HostComponent(parsed.input), StrLocalhost))

(***************************************************************************)
(* Server registry claims                                                  *)
(***************************************************************************)
\* the names of the servers the definitions of UPDATE_SERVERS parse to
DefinedNames(server_str, local_name) ==
    IF server_str = <<>> THEN <<>>
    ELSE LET defs == Split(server_str, ",") IN
         [i \in 1..Len(defs) |-> Server_parse(Trim(defs[i]), local_name)]
\* two definitions share a name, or a definition has the local server's name
HasNameCollision(server_str, local_name) ==
    LET ps == DefinedNames(server_str, local_name) IN
    /\ \A i \in 1..Len(ps) : ps[i].ok
    /\ \/ \E i, j \in 1..Len(ps) : i # j /\ ps[i].server.name = ps[j].server.name
       \/ \E i \in 1..Len(ps) :
             /\ ps[i].server.name = Server_local(local_name).name
             /\ ps[i].server.ssh_host # None

\* C11: the registry built from UPDATE_SERVERS never resolves a name
\* collision by last-write-wins: a duplicate name is flagged (construction
\* fails), and a registry that was built maps the local name to a local
\* server.
C11_DuplicatesFlaggedLocalKept ==
    registry.built =>
        /\ HasNameCollision(registry.server_str, registry.local_name)
              => ~registry.result.ok
        /\ registry.result.ok =>
              LET name == Server_local(registry.local_name).name IN
              /\ name \in DOMAIN registry.result.registry
              /\ registry.result.registry[name].ssh_host = None

(***************************************************************************)
(* Update check claims                                                     *)
(***************************************************************************)
\* C12: check_updates with the DNF checker starts the cache refresh as a
\* separate task; whatever that task does and whenever it ends, the result
\* of check_updates is the one the foreground output determines: its error,
\* or the packages parsed from its lines.
C12_RefreshNeverAffectsResult ==
    /\ (chk.pc # "idle" /\ chk.checker = "Dnf") => chk.bg # "none"
    /\ chk.pc = "returned" =>
          /\ chk.fg.ok =>
                /\ chk.result.ok
                /\ chk.result.text = parse_updates(chk.checker, chk.fg.text)
          /\ ~chk.fg.ok => chk.result = Err(chk.fg.err)

\* check_updates has returned one package while the refresh was still
\* running, and the refresh timed out afterwards
C12_Witness ==
    /\ chk.pc = "returned"
    /\ chk.checker = "Dnf"
    /\ chk.bg_at_return = "running"
    /\ chk.bg = "done" /\ chk.bg_outcome = "timeout"
    /\ chk.result = Ok(<<"docker-ce">>)

(***************************************************************************)
(* Updater claims                                                          *)
(***************************************************************************)
\* the commands of a run, foreground and spawned
AllCmds(run) == {run.cmds[i] : i \in 1..Len(run.cmds)}
                  \cup {run.spawned[i] : i \in 1..Len(run.spawned)}
Kinds(run) == {c.kind : c \in AllCmds(run)}

\* C13: with dry_run set, update_os and update_docker perform no mutating
\* action on the server: no upgrade, pull or restart command is executed,
\* only detection, listing and check commands run, and a successful result
\* reports how many packages or images would be updated.
C13_DryRunOnlyDetectListCheck ==
    (upd.op # "none" /\ upd.dry_run) =>
        /\ Kinds(upd.run) \subseteq {"detect", "list_images", "check"}
        /\ upd.run.result.ok =>
              \/ upd.run.result.n > 0
                 /\ upd.run.result.msg \in {"packages would be updated",
                                            "images would be updated"}
              \/ upd.run.result.n = 0
                 /\ upd.run.result.msg \in
                       {"No updates available", "No images found",
                        "No images specified (use --all or --images)"}

\* what a dry run does keep to: no upgrade, pull, ps or restart command; the
\* one command besides detection, listing and check is the cache refresh
\* that the DNF check spawns
DryRunNoUpgradePullRestart ==
    (upd.op # "none" /\ upd.dry_run) =>
        /\ Kinds(upd.run) \cap {"apt_update", "upgrade", "pull", "ps", "restart"} = {}
        /\ Kinds(upd.run) \subseteq {"detect", "list_images", "check", "makecache"}
        /\ "makecache" \in Kinds(upd.run) => Cmd("check", "Dnf") \in AllCmds(upd.run)

\* the restart configuration of an update, read as the policy describes it
PolicyInEffect == IF upd.policy_var = None THEN StrAllExceptWebhook ELSE Unwrap(upd.policy_var)
CommaItems(var) ==
    IF var = None THEN {}
    ELSE {Split(Unwrap(var), ",")[i] : i \in 1..Len(Split(Unwrap(var), ","))}
DefaultTokens == {Trim(item) : item \in CommaItems(upd.default_var)} \ {<<>>}
ServerTokens ==
    {Trim(Unwrap(SplitOnce(Trim(item), ":"))[2]) :
        item \in {it \in CommaItems(upd.specific_var) :
                     /\ SplitOnce(Trim(it), ":") # None
                     /\ eq_ignore_ascii_case(Trim(Unwrap(SplitOnce(Trim(it), ":"))[1]),
                                             upd.server_name)}}
ExcludedByToken(name) == \E tok \in DefaultTokens \cup ServerTokens : Contains(name, tok)
Restarted == {c.arg : c \in {k \in AllCmds(upd.run) : k.kind = "restart"}}
Dependents == {get_containers_using_image(upd.ps)[i] :
                   i \in 1..Len(get_containers_using_image(upd.ps))}

\* C17: a dependent container is never restarted under policy `none`, never
\* when its name contains `updatectl_webhook` (whatever the policy), never
\* when its name contains a default-exclude token or a server-specific
\* token of the current server (server names compared case-insensitively);
\* under `all-except-webhook`, also the default, every other dependent
\* container of a pulled image is restarted.
C17_RestartDecision ==
    upd.op = "docker" =>
        /\ \A name \in Restarted :
              /\ name \in Dependents
              /\ PolicyInEffect # StrNone
              /\ ~Contains(name, WebhookToken)
              /\ ~ExcludedByToken(name)
        /\ (\E c \in AllCmds(upd.run) : c.kind = "ps") /\ upd.ps.ok
              /\ PolicyInEffect = StrAllExceptWebhook =>
              \A name \in Dependents :
                  (~Contains(name, WebhookToken) /\ ~ExcludedByToken(name))
                     => name \in Restarted

\* under an unknown policy value the update restarted `cache` and left the
\* container x_updatectl_webhook_1 of the same image alone
C17_Witness ==
    /\ upd.op = "docker"
    /\ upd.policy_var = Some(<<"a", "l", "l">>)
    /\ Dependents = {<<"c", "a", "c", "h", "e">>, <<"x", "_", "u", "p", "d", "a", "t", "e", "c", "t", "l", "_", "w", "e", "b", "h", "o", "o", "k", "_", "1">>}
    /\ Restarted = {<<"c", "a", "c", "h", "e">>}

(***************************************************************************)
(* Fleet run claims                                                        *)
(***************************************************************************)
FleetDone == fleet.pc = "done"
Failed(i) == ~Unwrap(fleet.results[i]).ok
IsErrorLine(line, server) ==
    /\ SubSeq(line, 1, Len(CrossMark)) = CrossMark
    /\ Contains(line, StrError)
    /\ Contains(line, server.name)

\* C14: in a fleet run of either tool, whatever subset of the per-server
\* tasks fails, every task has run to its end when the run is done, and the
\* details hold exactly one entry per targeted server, in target order: the
\* server's own success report, or an error line naming the server.
C14_OneEntryPerServer ==
    FleetDone =>
        /\ Len(fleet.all_reports) = Len(fleet.servers)
        /\ fleet.details = Join(fleet.all_reports, <<"\n", "\n">>)
        /\ \A i \in DOMAIN fleet.servers :
              /\ fleet.results[i] # None
              /\ IF Failed(i)
                 THEN IsErrorLine(fleet.all_reports[i], fleet.servers[i])
                 ELSE /\ fleet.all_reports[i] = Unwrap(fleet.results[i]).report
                      /\ SubSeq(fleet.all_reports[i], 1, Len(CrossMark)) # CrossMark
                      /\ Contains(fleet.all_reports[i],
                                  Computer \o <<" ", " ">> \o fleet.servers[i].name)

Aborted(i) == ~Unwrap(fleet.results[i]).joined
\* the targets whose task gave a report, in spawn order
JoinedTargets ==
    SelectSeq([i \in DOMAIN fleet.servers |-> i], LAMBDA i : ~Aborted(i))

\* the entries are those of the tasks that gave a report: when the run is
\* done every task has ended, whatever the others did, and the details hold,
\* in spawn order, one entry for each task that returned (the server's own
\* success report, or an error line naming the server) and none for a task
\* that aborted; so there is one entry per server iff no task aborted
OneEntryPerJoinedTask ==
    FleetDone =>
        /\ \A i \in DOMAIN fleet.servers : fleet.results[i] # None
        /\ Len(fleet.all_reports) = Len(JoinedTargets)
        /\ fleet.details = Join(fleet.all_reports, <<"\n", "\n">>)
        /\ \A k \in DOMAIN JoinedTargets :
              LET i == JoinedTargets[k] IN
              /\ fleet.all_reports[k] = Unwrap(fleet.results[i]).report
              /\ IF Failed(i)
                 THEN IsErrorLine(fleet.all_reports[k], fleet.servers[i])
                 ELSE /\ SubSeq(fleet.all_reports[k], 1, Len(CrossMark)) # CrossMark
                      /\ Contains(fleet.all_reports[k],
                                  Computer \o <<" ", " ">> \o fleet.servers[i].name)

\* a finished run of three servers in which the first task returned an
\* error and the others succeeded: three entries
ThreeEntriesWhenAllJoined ==
    /\ FleetDone
    /\ Len(fleet.servers) = 3
    /\ \A i \in 1..3 : ~Aborted(i)
    /\ Failed(1) /\ ~Failed(2) /\ ~Failed(3)
    /\ Len(fleet.all_reports) = 3

HasErrorToken == AnyReport(fleet.all_reports, StrError)
\* C15: the summary title carries the warning marker whenever some report
\* contains an Error token and the success marker only when none does, for
\* updatectl and for updatemon.
C15_WarningIffErrorToken ==
    FleetDone =>
        /\ HasErrorToken => Contains(fleet.summary, WarningSign)
        /\ Contains(fleet.summary, CheckMark) => ~HasErrorToken

\* the updatectl summary alone follows the rule
UpdatectlTitleFollowsErrors ==
    (FleetDone /\ fleet.tool = "updatectl") =>
        /\ HasErrorToken <=> Contains(fleet.summary, WarningSign)
        /\ ~HasErrorToken <=> Contains(fleet.summary, CheckMark)

NothingConfigured ==
    /\ fleet.pc # "idle"
    /\ fleet.server_env = <<>>
    /\ fleet.servers_arg = None
    /\ ~fleet.local
\* C16: with UPDATE_SERVERS empty or unset, no --servers and no --local, the
\* tool exits non-zero with the usage message and starts no per-server task.
C16_NoServersExitsWithUsage ==
    NothingConfigured => (fleet.exit = "usage" /\ fleet.servers = <<>>)

\* updatemon alone follows the rule
UpdatemonNoServersExits ==
    (NothingConfigured /\ fleet.tool = "updatemon") =>
        (fleet.exit = "usage" /\ fleet.servers = <<>>)

(***************************************************************************)
(* Notification claims                                                     *)
(***************************************************************************)
HasButtons == IsSome(notice.actions) /\ Unwrap(notice.actions) # <<>>
\* C19: when the webhook secret is not configured, no notification that is
\* sent carries an action button, for the update notifications of updatemon
\* and for the cleanup notifications of dockermon.
C19_NoButtonsWithoutSecret ==
    (notice.sent /\ notice.secret_env = None) => ~HasButtons

\* the update notifications alone follow the rule, also for an empty secret
UpdatemonNoButtonsWithoutSecret ==
    (notice.sent /\ notice.tool = "updatemon"
        /\ unwrap_or_default(notice.secret_env) = <<>>) => ~HasButtons

(***************************************************************************)
(* Image update check claims                                               *)
(***************************************************************************)
BothDigestsDiffer ==
    /\ IsSome(imgchk.local_output.digest)
    /\ IsSome(imgchk.remote_output.digest)
    /\ imgchk.local_output.digest # imgchk.remote_output.digest
\* C18: has_update is true only when the local digest and the remote
\* manifest digest were both obtained and differ; equal digests, a missing
\* or unparseable local RepoDigest, a failed or unparseable manifest fetch,
\* a manifest without a digest, or a command error give has_update = false.
C18_UpdateOnlyOnDifferingDigests ==
    imgchk.checked => (imgchk.has_update => BothDigestsDiffer)

\* an image whose RepoDigest was read, whose manifest could not be fetched,
\* and that is reported without an update
C18_Witness ==
    /\ imgchk.checked
    /\ IsSome(imgchk.local_output.digest)
    /\ ~imgchk.remote_output.ok
    /\ ~imgchk.has_update

(***************************************************************************)
(* Stopped-container prune claims                                          *)
(***************************************************************************)
\* ages, in hours, of stopped containers on the host: just created, one
\* day, just under and at 7 days, just under and at 30 days
ContainerAgesHours == {0, 24, 167, 168, 719, 720}
\* what `container prune` removes under a filter: every stopped container
\* without one, those created at least `hours` ago under until=<hours>h
PruneRemoves(filter, age_hours) ==
    CASE filter.kind = "none" -> TRUE
      [] filter.kind = "until" -> age_hours >= filter.hours
      [] OTHER -> FALSE
StoppedThresholdHours(x) == 24 * stopped_container_age_days(x.profile)

\* C20: safe cleanup removes a stopped container only if its age is at
\* least the stopped-container threshold of the profile (30 days under
\* Conservative, 7 under Moderate), on the local and on the remote path; a
\* younger stopped container is kept.
C20_YoungStoppedContainersKept ==
    \A e \in ExecSlots : \A age \in ContainerAgesHours :
        PruneRemoves(execs[e].stopped_filter, age)
            => age >= StoppedThresholdHours(execs[e])

\* the remote path alone follows the rule
RemotePruneRespectsThreshold ==
    \A e \in ExecSlots : \A age \in ContainerAgesHours :
        (execs[e].path = "remote" /\ PruneRemoves(execs[e].stopped_filter, age))
            => age >= StoppedThresholdHours(execs[e])

(***************************************************************************)
(* Retry claims                                                            *)
(***************************************************************************)
RetryReturned == retry.pc = "returned"
Attempts == Len(retry.history)
\* C21: the operation is called at most DEFAULT_MAX_RETRIES + 1 = 4 times;
\* the call returns the first Ok obtained; when every attempt fails under
\* retry_async it returns after exactly 4 attempts with the last error; and
\* retry_async_when makes no attempt after an error its predicate rejects.
C21_RetryBounded ==
    /\ Attempts <= DEFAULT_MAX_RETRIES + 1
    /\ \A i \in 1..(Attempts - 1) :
          /\ retry.history[i] # "ok"
          /\ should_retry(retry.mode, retry.history[i])
    /\ RetryReturned =>
          /\ retry.result = retry.history[Attempts]
          /\ (retry.result # "ok" /\ retry.mode = "retry_async")
                => Attempts = DEFAULT_MAX_RETRIES + 1
    /\ (retry.pc \in {"call", "sleep"}) => Attempts <= DEFAULT_MAX_RETRIES

\* retry_async gave up after four failed attempts
C21_Witness ==
    /\ RetryReturned
    /\ retry.mode = "retry_async"
    /\ Attempts = 4
    /\ retry.result = "persistent error"

(***************************************************************************)
(* Applied OS update claims                                                *)
(***************************************************************************)
OsApplied == upd.op = "os" /\ ~upd.dry_run
CmdKinds == [i \in DOMAIN upd.run.cmds |-> upd.run.cmds[i].kind]
Positions(kinds) == {i \in DOMAIN CmdKinds : CmdKinds[i] \in kinds}
\* every command of the first kinds runs before every command of the others
AllBefore(kinds, later) ==
    \A i \in Positions(kinds), j \in Positions(later) : i < j
\* the upgrade commands that were issued, with whether each succeeded
UpgradePositions == Positions({"apt_update", "upgrade"})
NthUpgrade(i) == Cardinality({j \in UpgradePositions : j <= i})
SomeUpgradeFailed ==
    \E i \in UpgradePositions : ~upd.upgrade_ok[NthUpgrade(i)]

\* C22: an applied update_os runs detection, then the upgrade recipe (for
\* Apt the package-list update before the full upgrade), then the re-check,
\* in that order; the result is `Up to date` iff the re-check lists nothing
\* and `N updates still available` with N the packages left otherwise; an
\* upgrade command that returns an error ends the update with that error and
\* no later command runs.
C22_ApplyOrderAndResult ==
    OsApplied =>
        /\ AllBefore({"detect"}, {"apt_update", "upgrade", "check"})
        /\ AllBefore({"apt_update"}, {"upgrade"})
        /\ AllBefore({"apt_update", "upgrade"}, {"check"})
        /\ Positions({"check"}) # {} =>
              /\ Positions({"upgrade"}) # {}
              /\ ~SomeUpgradeFailed
              /\ Positions({"check"}) = {Len(upd.run.cmds)}
        /\ \A i \in UpgradePositions :
              ~upd.upgrade_ok[NthUpgrade(i)] =>
                  /\ i = Len(upd.run.cmds)
                  /\ ~upd.run.result.ok
        /\ upd.run.result.ok =>
              /\ Positions({"check"}) # {}
              /\ upd.check.ok
              /\ upd.run.result.n = upd.check.n
              /\ (upd.run.result.msg = "Up to date") <=> (upd.check.n = 0)
              /\ (upd.run.result.msg = "updates still available") <=> (upd.check.n > 0)
        /\ (Positions({"check"}) # {} /\ upd.check.ok) => upd.run.result.ok

\* an applied Apt update whose re-check still lists packages
C22_Witness ==
    /\ OsApplied
    /\ CmdKinds = <<"detect", "apt_update", "upgrade", "check">>
    /\ upd.run.result.ok
    /\ upd.run.result.msg = "updates still available"
    /\ upd.run.result.n = MaxUpdates

(***************************************************************************)
(* Cleanup result claims                                                   *)
(***************************************************************************)
SafeSteps == <<"dangling images", "unused networks", "build cache", "stopped containers">>
SafeCleanupDone == Len(cleanup.attempted) >= 4
SafeFailures == {i \in 1..4 : ~cleanup.outcomes[i].ok}
CountOf(i) == IF cleanup.outcomes[i].ok THEN cleanup.outcomes[i].count ELSE 0
SpaceOf(i) == IF cleanup.outcomes[i].ok THEN cleanup.outcomes[i].space_reclaimed ELSE 0

\* C23: execute_safe_cleanup, local and remote, attempts the four prune
\* steps in the order dangling images, unused networks, build cache, stopped
\* containers whatever the earlier steps returned; each failed step adds
\* exactly one entry to errors; the result carries the counts of the steps
\* that succeeded, and space_reclaimed_bytes is the sum of the space of the
\* steps that succeeded.
C23_SafeCleanupRunsAllSteps ==
    /\ \A i \in 1..Len(cleanup.attempted) : i <= 4 => cleanup.attempted[i] = SafeSteps[i]
    /\ cleanup.pc \in {"unused", "returned"} => SafeCleanupDone
    /\ SafeCleanupDone =>
          /\ Len(cleanup.safe.errors) = Cardinality(SafeFailures)
          /\ cleanup.safe.dangling_images_removed = CountOf(1)
          /\ cleanup.safe.networks_removed = CountOf(2)
          /\ cleanup.safe.build_cache_reclaimed = SpaceOf(3)
          /\ cleanup.safe.stopped_containers_removed = CountOf(4)
          /\ cleanup.safe.space_reclaimed_bytes =
                SpaceOf(1) + SpaceOf(3) + SpaceOf(4)

\* the first and third steps failed, the second and fourth removed something
C23_Witness ==
    /\ SafeCleanupDone
    /\ SafeFailures = {1, 3}
    /\ cleanup.safe.errors =
          <<"Failed to prune dangling images", "Failed to prune build cache">>
    /\ cleanup.safe.networks_removed = MaxRemoved
    /\ cleanup.safe.stopped_containers_removed = MaxRemoved
    /\ cleanup.safe.space_reclaimed_bytes > 0

UnusedImagePruneFailed ==
    /\ cleanup.pc = "returned"
    /\ prune_unused_images(cleanup.profile)
    /\ ~cleanup.outcomes[5].ok

IsMember(x, seq) == \E i \in DOMAIN seq : seq[i] = x

\* C24: when the unused-image prune fails in a Moderate or Aggressive run,
\* the CleanupResult the orchestrator returns has an entry for that failure
\* in errors and still carries the counts and bytes of the safe cleanup.
C24_UnusedImageFailureReported ==
    UnusedImagePruneFailed =>
        /\ IsMember("Failed to prune unused images", cleanup.result.errors)
        /\ cleanup.result.dangling_images_removed = cleanup.safe.dangling_images_removed
        /\ cleanup.result.space_reclaimed_bytes = cleanup.safe.space_reclaimed_bytes

\* the part that holds: a failed unused-image prune leaves the result of the
\* safe cleanup as it was, errors included
UnusedImageFailureLeavesSafeResult ==
    UnusedImagePruneFailed => cleanup.result = cleanup.safe

(***************************************************************************)
(* Remote analysis claims                                                  *)
(***************************************************************************)
Scanned == scan.fn # "none"
HasLine(line) == \E i \in DOMAIN scan.lines : scan.lines[i] = line

\* C25: the remote analysis treats an unparseable or missing timestamp or
\* size, and a malformed JSON line, as missing data (time 0, size 0): for
\* every CLI output, also one with a CreatedAt shorter than 19 characters or
\* a record without CreatedAt or ID, it returns its statistics and neither
\* aborts nor fails.
C25_RemoteAnalysisAlwaysReports ==
    Scanned => scan.outcome.state = "ok"

\* the part that holds: when the analysis returns its statistics, a
\* timestamp of 19 characters or more that does not parse counts as time 0
\* and a size that is absent or does not parse as 0 bytes
UnparseableCountsAsZero ==
    (Scanned /\ scan.outcome.state = "ok") =>
        \A i \in DOMAIN scan.outcome.items :
            LET item == scan.outcome.items[i] IN
            /\ item.created_timestamp \in {0, 1705314645}
            /\ item.size_bytes \in {0, 1024}

\* the outcomes other than a report arise from a line that is not JSON, a
\* short or absent CreatedAt, or a short or absent ID only
FailuresOnlyFromShortOrMalformed ==
    (Scanned /\ scan.outcome.state # "ok") =>
        \E i \in DOMAIN scan.lines :
            \/ scan.lines[i] = MalformedLine
            \/ /\ scan.lines[i].kind = "object"
               /\ scan.fn = "analyze_stopped_containers_remote"
               /\ \/ Len(unwrap_or(StrField(scan.lines[i], "CreatedAt"), <<>>)) < 19
                  \/ Len(unwrap_or(StrField(scan.lines[i], "ID"), <<>>)) < 12

(***************************************************************************)
(* Health sampler claims                                                   *)
(***************************************************************************)
FrameSampled == sample.state = "ok"
SystemAbsent == sample.frame.system = None \/ sample.frame.pre_system = None
SystemDelta == Unwrap(sample.frame.system) - Unwrap(sample.frame.pre_system)
CpuDelta == sample.frame.total - sample.frame.pre_total

\* C26: for a stats frame, CPU% is unknown exactly when either system CPU
\* usage value is absent or system_delta <= 0; in every other case a CPU%
\* value is present.
C26_CpuUnknownIffNoSystemDelta ==
    FrameSampled =>
        (sample.cpu_pct = None <=> (SystemAbsent \/ SystemDelta <= 0))

\* the direction that holds: no system value or no system delta, no CPU%
CpuUnknownWithoutSystemDelta ==
    (FrameSampled /\ (SystemAbsent \/ SystemDelta <= 0)) => sample.cpu_pct = None

\* what the sampler does: a CPU% is present exactly when both system values
\* are present and both deltas are positive, so a present value is never 0
CpuKnownIffBothDeltasPositive ==
    FrameSampled =>
        /\ IsSome(sample.cpu_pct) <=> (~SystemAbsent /\ SystemDelta > 0 /\ CpuDelta > 0)
        /\ IsSome(sample.cpu_pct) => Unwrap(sample.cpu_pct).num > 0

(***************************************************************************)
(* DNF parser claims                                                       *)
(***************************************************************************)
DnfParsed == dnf.state # "none"
\* a field with only its dot-arch suffix removed: the text before its last dot
LastDot(word) ==
    IF \E i \in DOMAIN word : word[i] = "."
    THEN CHOOSE i \in DOMAIN word : word[i] = "." /\ \A j \in (i + 1)..Len(word) : word[j] # "."
    ELSE Len(word) + 1
WithoutArchSuffix(word) == SubSeq(word, 1, LastDot(word) - 1)
IsBlank(line) == \A i \in DOMAIN line : line[i] \in Whitespace
UpdateLine(line) ==
    ~IsBlank(line) /\ ~StartsWithHash(line) /\ Len(split_whitespace(line)) >= 3
UpdateLinesOf(output) == SelectSeq(str_lines(output), UpdateLine)

\* C27: parse_updates returns, in input order, one name for each non-blank
\* line that does not begin with '#' and has at least three
\* whitespace-separated fields, the name being the first field with only its
\* dot-arch suffix removed; all other lines contribute nothing.
C27_DnfNamesWithoutArch ==
    DnfParsed =>
        LET expected == UpdateLinesOf(dnf.output) IN
        /\ Len(dnf.names) = Len(expected)
        /\ \A i \in DOMAIN dnf.names :
              dnf.names[i] = WithoutArchSuffix(split_whitespace(expected[i])[1])

\* the part that holds: which lines give a name, and in which order; the
\* name is the first field up to its first dot
DnfNamesUpToFirstDot ==
    DnfParsed =>
        LET expected == UpdateLinesOf(dnf.output) IN
        /\ Len(dnf.names) = Len(expected)
        /\ \A i \in DOMAIN dnf.names :
              LET field == split_whitespace(expected[i])[1] IN
              /\ IsPrefix(dnf.names[i], field)
              /\ \A j \in DOMAIN dnf.names[i] : dnf.names[i][j] # "."
              /\ Len(dnf.names[i]) < Len(field) => field[Len(dnf.names[i]) + 1] = "."

(***************************************************************************)
(* Webhook check order claims                                              *)
(***************************************************************************)
ImageMissing(req) == req.route = "update/docker/image" /\ req.image = None
\* the query string deserializes: the handler body is entered
Extracted(req) == ~QueryRejected(req)

\* C28: in every webhook handler the token check comes before every other
\* validation and lookup: a request whose token does not match is answered
\* 401 whether or not its server name is registered or its image parameter
\* is present; a request whose token matches is answered 400 when its server
\* name is not in the registry or, on the image route, its image parameter
\* is missing; none of these requests spawns a background task.
C28_TokenCheckedFirst ==
    Answered =>
        /\ ~CarriesSecret(resp.req) => (resp.status = 401 /\ resp.spawned = 0)
        /\ (CarriesSecret(resp.req)
               /\ (~NamesKnownServer(resp.req) \/ ImageMissing(resp.req)))
              => (resp.status = 400 /\ resp.spawned = 0)

\* the part that holds: once the query string has deserialized (token and
\* server parameters present), the handler body checks the token first
HandlerBodyChecksTokenFirst ==
    (Answered /\ Extracted(resp.req)) =>
        /\ ~CarriesSecret(resp.req) => (resp.status = 401 /\ resp.spawned = 0)
        /\ (CarriesSecret(resp.req)
               /\ (~NamesKnownServer(resp.req) \/ ImageMissing(resp.req)))
              => (resp.status = 400 /\ resp.spawned = 0)
        /\ resp.status # 202 => resp.spawned = 0

(***************************************************************************)
(* Docker update claims                                                    *)
(***************************************************************************)
DockerApplied ==
    upd.op = "docker" /\ ~upd.dry_run /\ upd.run.result.ok
        /\ upd.run.result.msg = "Updated images"
\* the images the update is about
TargetImages ==
    IF upd.src.all THEN get_all_images(upd.src.listing)
    ELSE ImagesFromArg(Unwrap(upd.src.images))
\* `docker pull` of the image exited with status zero
PullExitedZero(image) ==
    image # RedisImage \/ (upd.pull_out.spawned /\ success(upd.pull_out.status))
PullPositions == {i \in DOMAIN upd.run.cmds : upd.run.cmds[i].kind = "pull"}
\* the pull a command belongs to: the last one before it
PullBefore(i) ==
    CHOOSE p \in PullPositions : p < i /\ \A q \in PullPositions : q < i => q <= p
CountWhere(seq, Test(_)) == Cardinality({i \in DOMAIN seq : Test(seq[i])})

\* C29: update_docker counts an image as updated and restarts its dependents
\* only if `docker pull` of it exited with status zero; an image whose pull
\* failed is counted as failed and none of its dependents is restarted;
\* every restart comes after the pull of its image; updated + failed is the
\* number of target images.
C29_UpdatedOnlyAfterPullSucceeded ==
    DockerApplied =>
        /\ upd.run.result.n = CountWhere(TargetImages, PullExitedZero)
        /\ upd.run.result.detail.failed =
              CountWhere(TargetImages, LAMBDA image : ~PullExitedZero(image))
        /\ upd.run.result.n + upd.run.result.detail.failed = Len(TargetImages)
        /\ \A i \in DOMAIN upd.run.cmds :
              upd.run.cmds[i].kind = "restart" =>
                  /\ \E p \in PullPositions : p < i
                  /\ PullExitedZero(upd.run.cmds[PullBefore(i)].arg)

\* the part that holds: the counters follow what execute_command returned
\* for the pull (Ok or Err), every restart follows a pull that returned Ok,
\* and updated + failed is the number of target images
UpdatedIffPullReturnedOk ==
    DockerApplied =>
        LET fails == PullFails(upd.executor, upd.pull_out) IN
        /\ upd.run.result.n = CountWhere(TargetImages, LAMBDA image : image \notin fails)
        /\ upd.run.result.detail.failed = CountWhere(TargetImages, LAMBDA image : image \in fails)
        /\ upd.run.result.n + upd.run.result.detail.failed = Len(TargetImages)
        /\ Cardinality(PullPositions) = Len(TargetImages)
        /\ \A i \in DOMAIN upd.run.cmds :
              upd.run.cmds[i].kind = "restart" =>
                  /\ \E p \in PullPositions : p < i
                  /\ upd.run.cmds[PullBefore(i)].arg \notin fails

(***************************************************************************)
(* Fan-out claims                                                          *)
(***************************************************************************)
FanoutDone == fanout.pc = "done"
\* the server whose task made the k-th collected report
OwnerOf(k) == fanout.servers[fanout.owners[k]]
ReportsOf(server) ==
    {k \in DOMAIN fanout.all_reports : OwnerOf(k) = server}
SomeTaskAborted ==
    \E i \in DOMAIN fanout.handles : fanout.handles[i] = Some(JoinError)
NamesServer(n, server) ==
    /\ IsPrefix(server.name \o <<" ", "-", " ">>, n.title)
    /\ \A a \in DOMAIN Unwrap(n.actions) :
          Contains(Unwrap(Unwrap(n.actions)[a].url),
                   <<"?", "s", "e", "r", "v", "e", "r", "=">>
                      \o urlencoding_encode(server.name) \o <<"&">>)

\* C30: every notification of the fan-out whose body is the report of
\* server S has a title and action-button URLs that name S, whatever the
\* per-server tasks did, a task that ended without a report included.
C30_NotificationNamesItsServer ==
    FanoutDone =>
        \A j \in DOMAIN fanout.sent :
            \A k \in DOMAIN fanout.all_reports :
                fanout.sent[j].about = fanout.all_reports[k]
                    => NamesServer(fanout.sent[j], OwnerOf(k))

\* the part that holds: when every task handed over a report, each
\* notification names the server its body is the report of
NamesItsServerWhenAllJoined ==
    (FanoutDone /\ ~SomeTaskAborted) =>
        /\ Len(fanout.all_reports) = Len(fanout.servers)
        /\ \A j \in DOMAIN fanout.sent :
              \A k \in DOMAIN fanout.all_reports :
                  fanout.sent[j].about = fanout.all_reports[k]
                      => NamesServer(fanout.sent[j], OwnerOf(k))

====
